---- MODULE Spec2Model ----
(***************************************************************************)
(* audiobook-forge: batch conversion orchestration.                        *)
(*   core/retry.rs     RetryConfig, retry_async, classify_error,           *)
(*                     smart_retry_async                                   *)
(*   core/batch.rs     BatchProcessor::process_batch                       *)
(*   core/processor.rs Processor::process_book                             *)
(*   models/book.rs    BookFolder::classify, can_use_concat_copy           *)
(*   core/scanner.rs   Scanner::scan_directory                             *)
(*   core/analyzer.rs  Analyzer::analyze_book_folder                       *)
(*   core/organizer.rs Organizer::organize_book, organize_batch            *)
(*   models/quality.rs QualityProfile                                      *)
(* Strings are sequences of one-character strings, so that to_lowercase    *)
(* and contains are computed character by character.                       *)
(***************************************************************************)
EXTENDS Integers, Sequences, FiniteSets, TLC

VARIABLES
    \* ---- classify_error (SpecClassify) ----
    c_pc,            \* "input" | "done"
    c_error,         \* the anyhow::Error handed to classify_error (a context chain)
    c_type,          \* the ErrorType returned
    \* ---- RetryConfig::calculate_delay (SpecDelay) ----
    d_pc,            \* "input" | "done"
    d_config,        \* the RetryConfig
    d_attempt,       \* the attempt argument
    d_delay,         \* the Duration returned (milliseconds)
    \* ---- retry_async / smart_retry_async on their own (SpecRetry) ----
    r_fn,            \* "retry_async" | "smart_retry_async"
    r_config,        \* the RetryConfig
    r_state,         \* the loop's state (see RetryStart)
    r_outcomes,      \* what f has returned so far, in order
    \* ---- BatchProcessor::process_batch (Spec) ----
    workers,                 \* self.workers
    max_concurrent_encodes,  \* self.max_concurrent_encodes
    retry_config,            \* self.retry_config
    books,                   \* books[i]: what the Processor may return for book i
    total_books,             \* books.len()
    main_pc,                 \* position of process_batch
    spawned,                 \* number of units spawned so far (handles.len())
    unit,                    \* unit[i]: the task spawned for book i
    permits,                 \* free permits of encode_semaphore
    senders,                 \* live clones of result_tx (the original included)
    channel,                 \* results buffered in the mpsc channel
    results,                 \* the results vector of process_batch
    joined,                  \* number of handles awaited so far
    \* ---- Processor::process_book, one invocation (SpecBook) ----
    keep_temp,                 \* self.keep_temp
    enable_parallel_encoding,  \* self.enable_parallel_encoding
    max_concurrent_files,      \* self.max_concurrent_files
    tracks,                    \* book_folder.tracks
    chapter_source,            \* the chapter_source argument
    book_pc,                   \* position of process_book
    use_copy,                  \* the local use_copy
    tasks,                     \* tasks[i]: the encoding task spawned for track i
    semaphore,                 \* free permits of the per-book semaphore
    awaited,                   \* number of tasks the await loop has got Ok from
    output_exists,             \* a file written by this invocation is at output_path
    temp_dir_exists,           \* temp_dir exists
    temp_files,                \* the files in temp_dir
    calls,                     \* the tool calls process_book itself has made, in order
    cleanup_failed,            \* remove_dir_all(&temp_dir) returned an error (logged)
    book_ret,                  \* what process_book returned
    \* ---- BookFolder::can_use_concat_copy (SpecCopy) ----
    copy_pc,         \* "input" | "done"
    copy_tracks,     \* self.tracks
    copy_result,     \* the bool returned
    \* ---- BookFolder::classify (SpecCase) ----
    folder,          \* the BookFolder: its mp3_files, m4b_files and case
    classify_calls,  \* number of classify() calls made on it
    \* ---- one book from scan to the audio tool (SpecOrder) ----
    order_pc,        \* "scan" | "analyze" | "process" | "done"
    dir_files,       \* names of the audio files in the book's folder
    book_folder,     \* the BookFolder: its mp3_files and tracks
    tool_inputs,     \* the files process_book lists for the audio tool, in order
    \* ---- Scanner::scan_directory (SpecScan) ----
    scan_pc,         \* "walk" | "done"
    tree,            \* the directories below root, each a path of names from root
    audio_dirs,      \* the directories that hold an audio file
    walk_stack,      \* WalkDir: the entries still to yield, one set per open directory
    book_folders,    \* the book_folders vector (the folder path of each book)
    \* ---- Organizer::organize_batch (SpecOrganize) ----
    org_self,        \* the Organizer: m4b_folder, convert_folder, dry_run
    org_fs,          \* the directories that exist below root
    org_books,       \* the books argument
    org_pc,          \* "loop" | "returned"
    org_rets,        \* what organize_book returned for each book so far
    org_results,     \* the results vector
    \* ---- Organizer::resolve_naming_conflict (SpecResolve) ----
    res_pc,          \* "input" | "done"
    res_fs,          \* the directories that exist below root
    res_path,        \* the path argument
    res_ret,         \* the Result returned
    \* ---- QualityProfile (SpecQuality) ----
    q_pc,            \* "new" | "built" | "failed"
    q_args,          \* the arguments of the first QualityProfile::new
    q_other_args,    \* the arguments of the second QualityProfile::new
    q_p,             \* the first profile
    q_q,             \* the second profile
    q_ops,           \* number of profiles derived from the first one
    q_call,          \* the last method call: its receiver, arguments and value
    \* ---- the constructors' clamps (SpecClamp) ----
    cl_pc,           \* "new" | "built" | "pooled"
    cl_args,         \* the counts handed to the constructors
    cl_batch,        \* the BatchProcessor
    cl_processor,    \* the Processor
    cl_pools,        \* the permits each Semaphore::new was given
    \* ---- BookFolder::get_best_quality_profile in process_book (SpecBest) ----
    bq_pc,           \* "start" | "strategy" | "returned"
    bq_tracks,       \* book_folder.tracks
    bq_quality,      \* what get_best_quality_profile(true) returned
    bq_ret,          \* None, or the Err process_book returned
    \* ---- Processor::generate_chapters (SpecChapters) ----
    ch_pc,           \* "start" | "returned"
    ch_tracks,       \* book_folder.tracks (the book has no CUE file)
    ch_source,       \* the chapter_source argument
    ch_chapters,     \* the Vec<Chapter> returned
    \* ---- one book of a batch, encoded in parallel and retried (SpecUnit) ----
    u_pc,            \* "acquire" | "retry" | "await" | "send" | "sent" | "finished"
    u_config,        \* max_retries, max_concurrent_files and the number of tracks
    u_permit,        \* the task holds a permit of encode_semaphore
    u_retry,         \* the state of its smart_retry_async call
    u_tasks,         \* per process_book invocation, the state of each encoding task
    u_semaphores,    \* per process_book invocation, the free permits of its semaphore
    u_awaited,       \* tasks of the running invocation that were awaited
    \* ---- the paths of two books of one batch (SpecPair) ----
    pr_books,        \* the two BookFolders
    pr_pc,           \* per book: "start" | "named" | "prepared"
    pr_output_path,  \* per book: output_path, once computed
    pr_temp_dir,     \* per book: temp_dir, once created
    pr_fs            \* the directories under std::env::temp_dir(), with their owner

classify_vars == <<c_pc, c_error, c_type>>
delay_vars == <<d_pc, d_config, d_attempt, d_delay>>
retry_vars == <<r_fn, r_config, r_state, r_outcomes>>
batch_vars == <<workers, max_concurrent_encodes, retry_config, books, total_books, main_pc,
                spawned, unit, permits, senders, channel, results, joined>>
book_vars == <<keep_temp, enable_parallel_encoding, max_concurrent_files, tracks,
               chapter_source, book_pc,
               use_copy, tasks, semaphore, awaited, output_exists, temp_dir_exists,
               temp_files, calls, cleanup_failed, book_ret>>
copy_vars == <<copy_pc, copy_tracks, copy_result>>
case_vars == <<folder, classify_calls>>
order_vars == <<order_pc, dir_files, book_folder, tool_inputs>>
scan_vars == <<scan_pc, tree, audio_dirs, walk_stack, book_folders>>
library_vars == <<book_vars, copy_vars, case_vars, order_vars, scan_vars>>
organize_vars == <<org_self, org_fs, org_books, org_pc, org_rets, org_results>>
resolve_vars == <<res_pc, res_fs, res_path, res_ret>>
quality_vars == <<q_pc, q_args, q_other_args, q_p, q_q, q_ops, q_call>>
clamp_vars == <<cl_pc, cl_args, cl_batch, cl_processor, cl_pools>>
best_vars == <<bq_pc, bq_tracks, bq_quality, bq_ret>>
chapter_vars == <<ch_pc, ch_tracks, ch_source, ch_chapters>>
unit_vars == <<u_pc, u_config, u_permit, u_retry, u_tasks, u_semaphores, u_awaited>>
pair_vars == <<pr_books, pr_pc, pr_output_path, pr_temp_dir, pr_fs>>
studio_vars == <<best_vars, chapter_vars, unit_vars, pair_vars>>
shelf_vars == <<organize_vars, resolve_vars, quality_vars, clamp_vars, studio_vars>>
vars == <<classify_vars, delay_vars, retry_vars, batch_vars, library_vars, shelf_vars>>

(***************************************************************************)
(* Strings                                                                 *)
(***************************************************************************)
UpperChars == <<"A","B","C","D","E","F","G","H","I","J","K","L","M",
                "N","O","P","Q","R","S","T","U","V","W","X","Y","Z">>
LowerChars == <<"a","b","c","d","e","f","g","h","i","j","k","l","m",
                "n","o","p","q","r","s","t","u","v","w","x","y","z">>

\* char::to_lowercase on the ASCII range
to_lowercase_char(c) ==
    IF \E i \in 1..26 : UpperChars[i] = c
    THEN LowerChars[CHOOSE i \in 1..26 : UpperChars[i] = c]
    ELSE c

\* str::to_lowercase
to_lowercase(s) == [i \in 1..Len(s) |-> to_lowercase_char(s[i])]

\* str::contains(pattern)
contains(s, pat) ==
    \E i \in 0..(Len(s) - Len(pat)) : SubSeq(s, i + 1, i + Len(pat)) = pat

\* The substrings classify_error looks for (retry.rs:134-148)
M_timeout == <<"t","i","m","e","o","u","t">>
M_connection == <<"c","o","n","n","e","c","t","i","o","n">>
M_temporarily_unavailable == <<"t","e","m","p","o","r","a","r","i","l","y"," ","u","n","a","v","a","i","l","a","b","l","e">>
M_too_many_open_files == <<"t","o","o"," ","m","a","n","y"," ","o","p","e","n"," ","f","i","l","e","s">>
M_resource_temporarily_unavailable == <<"r","e","s","o","u","r","c","e"," ","t","e","m","p","o","r","a","r","i","l","y"," ","u","n","a","v","a","i","l","a","b","l","e">>
M_file_not_found == <<"f","i","l","e"," ","n","o","t"," ","f","o","u","n","d">>
M_permission_denied == <<"p","e","r","m","i","s","s","i","o","n"," ","d","e","n","i","e","d">>
M_invalid == <<"i","n","v","a","l","i","d">>
M_unsupported == <<"u","n","s","u","p","p","o","r","t","e","d">>
M_corrupted == <<"c","o","r","r","u","p","t","e","d">>

TransientMarkers == {M_timeout, M_connection, M_temporarily_unavailable,
                     M_too_many_open_files, M_resource_temporarily_unavailable}
PermanentMarkers == {M_file_not_found, M_permission_denied, M_invalid,
                     M_unsupported, M_corrupted}

(***************************************************************************)
(* anyhow::Error: a chain of messages, the outermost context first.        *)
(***************************************************************************)
\* anyhow::anyhow!(msg) / anyhow::bail!(msg)
anyhow(msg) == <<msg>>

\* Context::context: wraps the error, the context becomes the outermost message
context(e, msg) == <<msg>> \o e

\* Display of anyhow::Error ("{}"): the outermost message only
to_string(e) == e[1]

(***************************************************************************)
(* core/retry.rs                                                           *)
(***************************************************************************)
\* faulty variant: markers matched without lowering the message
classify_error_case_sensitive(error) ==
    LET error_msg == to_string(error) IN
    IF \/ contains(error_msg, M_timeout)
       \/ contains(error_msg, M_connection)
       \/ contains(error_msg, M_temporarily_unavailable)
       \/ contains(error_msg, M_too_many_open_files)
       \/ contains(error_msg, M_resource_temporarily_unavailable)
    THEN "Transient"
    ELSE IF \/ contains(error_msg, M_file_not_found)
            \/ contains(error_msg, M_permission_denied)
            \/ contains(error_msg, M_invalid)
            \/ contains(error_msg, M_unsupported)
            \/ contains(error_msg, M_corrupted)
         THEN "Permanent"
         ELSE "Transient"

\* faulty variant: the permanent markers tested first
classify_error_permanent_first(error) ==
    LET error_msg == to_lowercase(to_string(error)) IN
    IF \/ contains(error_msg, M_file_not_found)
       \/ contains(error_msg, M_permission_denied)
       \/ contains(error_msg, M_invalid)
       \/ contains(error_msg, M_unsupported)
       \/ contains(error_msg, M_corrupted)
    THEN "Permanent"
    ELSE IF \/ contains(error_msg, M_timeout)
            \/ contains(error_msg, M_connection)
            \/ contains(error_msg, M_temporarily_unavailable)
            \/ contains(error_msg, M_too_many_open_files)
            \/ contains(error_msg, M_resource_temporarily_unavailable)
         THEN "Transient"
         ELSE "Transient"

classify_error(error) ==
    LET error_msg == to_lowercase(to_string(error)) IN
    IF \/ contains(error_msg, M_timeout)
       \/ contains(error_msg, M_connection)
       \/ contains(error_msg, M_temporarily_unavailable)
       \/ contains(error_msg, M_too_many_open_files)
       \/ contains(error_msg, M_resource_temporarily_unavailable)
    THEN "Transient"
    ELSE IF \/ contains(error_msg, M_file_not_found)
            \/ contains(error_msg, M_permission_denied)
            \/ contains(error_msg, M_invalid)
            \/ contains(error_msg, M_unsupported)
            \/ contains(error_msg, M_corrupted)
         THEN "Permanent"
         ELSE "Transient"

\* f64::powi on whole numbers
RECURSIVE powi(_, _)
powi(x, n) == IF n = 0 THEN 1 ELSE x * powi(x, n - 1)

\* RetryConfig::with_settings; durations are whole seconds
with_settings(max_retries, initial_delay, max_delay, backoff_multiplier) ==
    [max_retries |-> max_retries, initial_delay |-> initial_delay,
     max_delay |-> max_delay, backoff_multiplier |-> backoff_multiplier]

\* RetryConfig::new
RetryConfig_new == with_settings(2, 1, 30, 2)

\* faulty variant: the first retry waits initial_delay times the multiplier to the power 0
calculate_delay_shifted(config, attempt) ==
    IF attempt = 0
    THEN config.initial_delay
    ELSE LET delay == config.initial_delay * powi(config.backoff_multiplier, attempt - 1)
         IN  IF delay > config.max_delay THEN config.max_delay ELSE delay

\* RetryConfig::calculate_delay
calculate_delay(config, attempt) ==
    IF attempt = 0
    THEN config.initial_delay
    ELSE LET delay == config.initial_delay * powi(config.backoff_multiplier, attempt)
         IN  IF delay > config.max_delay THEN config.max_delay ELSE delay

(***************************************************************************)
(* Result<T> of the retried operation                                      *)
(***************************************************************************)
None == [tag |-> "None", err |-> <<>>]
Ok == [tag |-> "Ok", err |-> <<>>]
Err(e) == [tag |-> "Err", err |-> e]

(***************************************************************************)
(* retry_async / smart_retry_async as a loop over `attempt`.               *)
(*   pc = "call"     about to evaluate f() in iteration `attempt`          *)
(*   pc = "in_call"  awaiting f()                                          *)
(*   pc = "sleep"    awaiting sleep(delay)                                 *)
(*   pc = "returned" the function has returned `ret`                       *)
(* calls counts the invocations of f, sleeps lists the delays slept.       *)
(***************************************************************************)
RetryStart ==
    [pc |-> "call", attempt |-> 0, calls |-> 0, sleeps |-> <<>>,
     last_error |-> None, ret |-> None]

\* f() is invoked (the body of `for attempt in 0..=config.max_retries`)
RetryInvoke(s) == [s EXCEPT !.pc = "in_call", !.calls = @ + 1]

\* sleep(delay) has elapsed; the loop moves to the next attempt
RetryWake(s) == [s EXCEPT !.pc = "call", !.attempt = @ + 1]

\* retry_async: f().await has produced `outcome`
retry_async(config, s, outcome) ==
    IF outcome.tag = "Ok"
    THEN [s EXCEPT !.pc = "returned", !.ret = outcome]
    ELSE IF s.attempt < config.max_retries
         THEN [s EXCEPT !.pc = "sleep", !.last_error = outcome,
                        !.sleeps = Append(@, calculate_delay(config, s.attempt))]
         ELSE [s EXCEPT !.pc = "returned", !.last_error = outcome, !.ret = outcome]

\* faulty variant: a failure is retried whatever its class
smart_retry_async_without_classify(config, s, outcome) ==
    IF outcome.tag = "Ok"
    THEN [s EXCEPT !.pc = "returned", !.ret = outcome]
    ELSE IF s.attempt < config.max_retries
         THEN [s EXCEPT !.pc = "sleep", !.last_error = outcome,
                        !.sleeps = Append(@, calculate_delay(config, s.attempt))]
         ELSE [s EXCEPT !.pc = "returned", !.last_error = outcome, !.ret = outcome]

\* faulty variant: the loop runs one iteration too many
smart_retry_async_extra_attempt(config, s, outcome) ==
    IF outcome.tag = "Ok"
    THEN [s EXCEPT !.pc = "returned", !.ret = outcome]
    ELSE IF classify_error(outcome.err) = "Permanent"
         THEN [s EXCEPT !.pc = "returned", !.ret = outcome]
         ELSE IF s.attempt <= config.max_retries
              THEN [s EXCEPT !.pc = "sleep", !.last_error = outcome,
                             !.sleeps = Append(@, calculate_delay(config, s.attempt))]
              ELSE [s EXCEPT !.pc = "returned", !.last_error = outcome, !.ret = outcome]

\* smart_retry_async: f().await has produced `outcome`
smart_retry_async(config, s, outcome) ==
    IF outcome.tag = "Ok"
    THEN [s EXCEPT !.pc = "returned", !.ret = outcome]
    ELSE IF classify_error(outcome.err) = "Permanent"
         THEN [s EXCEPT !.pc = "returned", !.ret = outcome]
         ELSE IF s.attempt < config.max_retries
              THEN [s EXCEPT !.pc = "sleep", !.last_error = outcome,
                             !.sleeps = Append(@, calculate_delay(config, s.attempt))]
              ELSE [s EXCEPT !.pc = "returned", !.last_error = outcome, !.ret = outcome]

\* Error messages of the source
\* retry.rs:357
Msg_connection_timeout == <<"C","o","n","n","e","c","t","i","o","n"," ","t","i","m","e","o","u","t">>
\* retry.rs:333
Msg_file_not_found == <<"F","i","l","e"," ","n","o","t"," ","f","o","u","n","d">>
\* retry.rs:303
Msg_always_fails == <<"A","l","w","a","y","s"," ","f","a","i","l","s">>
\* processor.rs:113
Ctx_convert == <<"F","a","i","l","e","d"," ","t","o"," ","c","o","n","v","e","r","t"," ","a","u","d","i","o"," ","f","i","l","e">>
\* ffmpeg.rs:278
Msg_concat_not_found == <<"F","i","l","e"," ","n","o","t"," ","f","o","u","n","d",":"," ","/","b","o","o","k","s","/","b","/","0","2",".","m","p","3">>

\* Error texts of the audio tool and of the Processor
\* what ffmpeg prints on stderr for undecodable input
Stderr_invalid_data == <<"I","n","v","a","l","i","d"," ","d","a","t","a"," ","f","o","u","n","d"," ","w","h","e","n"," ","p","r","o","c","e","s","s","i","n","g"," ","i","n","p","u","t">>
\* ffmpeg.rs:266
Pre_conversion_failed == <<"F","F","m","p","e","g"," ","c","o","n","v","e","r","s","i","o","n"," ","f","a","i","l","e","d",":"," ">>
\* batch.rs:124
Pre_all_retries_failed == <<"A","l","l"," ","r","e","t","r","i","e","s"," ","f","a","i","l","e","d",":"," ">>

(***************************************************************************)
(* core/processor.rs, audio/ffmpeg.rs: the errors process_book returns     *)
(***************************************************************************)
\* what the audio tool may print on stderr when it exits non-zero
ToolStderr == {Stderr_invalid_data}

\* FFmpeg::convert_single_file on a non-zero exit status
convert_single_file_error(stderr) == anyhow(Pre_conversion_failed \o stderr)

\* process_book, single-file path: the tool's error wrapped in its stage context
process_book_tool_error(stderr) == context(convert_single_file_error(stderr), Ctx_convert)

\* FFmpeg::create_concat_file on a missing track; process_book passes it on with `?`
create_concat_file_error == anyhow(Msg_concat_not_found)

\* Result<ProcessingResult> of process_single_book
ProcessBookOutcomes ==
    {Ok} \cup {Err(process_book_tool_error(s)) : s \in ToolStderr}
         \cup {Err(create_concat_file_error)}


(***************************************************************************)
(* Bounds                                                                  *)
(***************************************************************************)
MaxPieces == 2        \* pieces per error message
MaxDelaySecs == 4     \* largest initial_delay / max_delay, in seconds
MaxMultiplier == 3    \* largest backoff_multiplier
MaxAttempt == 3       \* largest attempt index handed to calculate_delay
MaxRetries == 2       \* largest max_retries of a retry loop run on its own
MaxBooks == 2         \* largest batch
BatchMaxRetries == 1  \* largest max_retries of a batch
MaxTracks == 4        \* largest number of tracks of a book
MaxProfiles == 3      \* largest number of tracks of a book checked for copy mode
MaxFiles == 2         \* largest number of files in a bucket of a classified folder
MaxDirFiles == 3      \* largest number of audio files in a scanned book folder
MaxDirs == 3          \* largest number of directories below a scanned root
MaxTaken == 2         \* most names already taken in a target folder, one by one
MaxOrgBooks == 2      \* most books handed to organize_batch
MaxDerived == 2       \* most profiles derived one from the other by presets and to_aac_equivalent

(***************************************************************************)
(* Inputs of classify_error: messages put together from these pieces       *)
(***************************************************************************)
Pieces == {
    <<"F","i","l","e"," ","n","o","t"," ","f","o","u","n","d">>,
    <<"P","E","R","M","I","S","S","I","O","N"," ","D","E","N","I","E","D">>,
    <<"I","n","v","a","l","i","d">>,
    <<"u","n","s","u","p","p","o","r","t","e","d">>,
    <<"C","o","r","r","u","p","t","e","d">>,
    <<"C","o","n","n","e","c","t","i","o","n">>,
    <<"t","i","m","e","o","u","t">>,
    <<"T","e","m","p","o","r","a","r","i","l","y"," ","U","n","a","v","a","i","l","a","b","l","e">>,
    <<"t","o","o"," ","m","a","n","y"," ","o","p","e","n"," ","f","i","l","e","s">>,
    <<"R","e","s","o","u","r","c","e"," ">>,
    <<"S","o","m","e"," ","r","a","n","d","o","m"," ","e","r","r","o","r">>,
    <<":"," ">>,
    <<"t","i","m","e">>,
    <<"o","u","t">> }

RECURSIVE Concats(_)
Concats(n) == IF n = 0 THEN {<<>>} ELSE {p \o m : p \in Pieces, m \in Concats(n - 1)}

Messages == UNION {Concats(k) : k \in 0..MaxPieces}

\* Outcomes of the retried operation when a retry loop runs on its own
OpOutcomes ==
    {Ok, Err(anyhow(Msg_connection_timeout)), Err(anyhow(Msg_file_not_found)),
     Err(anyhow(Msg_always_fails)),
     Err(process_book_tool_error(Stderr_invalid_data))}

RetryConfigs ==
    {with_settings(n, d, 5, 2) : n \in 0..MaxRetries, d \in {0, 1}}

(***************************************************************************)
(* Values of the variables a specification does not use                    *)
(***************************************************************************)
ClassifyIdle == c_pc = "idle" /\ c_error = <<>> /\ c_type = "None"
DelayIdle == d_pc = "idle" /\ d_config = RetryConfig_new /\ d_attempt = 0 /\ d_delay = 0
RetryIdle ==
    r_fn = "idle" /\ r_config = RetryConfig_new /\ r_state = RetryStart /\ r_outcomes = <<>>
BookIdle ==
    /\ keep_temp = FALSE /\ enable_parallel_encoding = FALSE /\ max_concurrent_files = 1
    /\ tracks = <<>> /\ chapter_source = "none" /\ book_pc = "idle" /\ use_copy = FALSE /\ tasks = <<>>
    /\ semaphore = 0 /\ awaited = 0 /\ output_exists = FALSE /\ temp_dir_exists = FALSE
    /\ temp_files = {} /\ calls = <<>> /\ cleanup_failed = FALSE /\ book_ret = None
CopyIdle == copy_pc = "idle" /\ copy_tracks = <<>> /\ copy_result = FALSE
CaseIdle == folder = <<>> /\ classify_calls = 0
OrderIdle == order_pc = "idle" /\ dir_files = {} /\ book_folder = <<>> /\ tool_inputs = <<>>
ScanIdle ==
    /\ scan_pc = "idle" /\ tree = {} /\ audio_dirs = {} /\ walk_stack = <<>>
    /\ book_folders = <<>>
LibraryIdle == BookIdle /\ CopyIdle /\ CaseIdle /\ OrderIdle /\ ScanIdle
OrganizeIdle ==
    /\ org_self = <<>> /\ org_fs = {} /\ org_books = <<>> /\ org_pc = "idle"
    /\ org_rets = <<>> /\ org_results = <<>>
ResolveIdle == res_pc = "idle" /\ res_fs = {} /\ res_path = <<>> /\ res_ret = None
QualityIdle ==
    /\ q_pc = "idle" /\ q_args = <<>> /\ q_other_args = <<>> /\ q_p = None /\ q_q = None
    /\ q_ops = 0 /\ q_call = [fn |-> "none"]
ClampIdle ==
    /\ cl_pc = "idle" /\ cl_args = <<>> /\ cl_batch = <<>> /\ cl_processor = <<>>
    /\ cl_pools = <<>>
BestIdle == bq_pc = "idle" /\ bq_tracks = <<>> /\ bq_quality = None /\ bq_ret = None
ChapterIdle == ch_pc = "idle" /\ ch_tracks = <<>> /\ ch_source = <<>> /\ ch_chapters = <<>>
UnitIdle ==
    /\ u_pc = "idle" /\ u_config = <<>> /\ u_permit = FALSE /\ u_retry = <<>>
    /\ u_tasks = <<>> /\ u_semaphores = <<>> /\ u_awaited = 0
PairIdle ==
    /\ pr_books = <<>> /\ pr_pc = <<>> /\ pr_output_path = <<>> /\ pr_temp_dir = <<>>
    /\ pr_fs = {}
StudioIdle == BestIdle /\ ChapterIdle /\ UnitIdle /\ PairIdle
ShelfIdle == OrganizeIdle /\ ResolveIdle /\ QualityIdle /\ ClampIdle /\ StudioIdle

(***************************************************************************)
(* core/batch.rs                                                           *)
(***************************************************************************)
\* faulty variant: only the upper end is enforced
clamp_upper_only(x, lo, hi) == IF x > hi THEN hi ELSE x

\* usize::clamp
clamp(x, lo, hi) == IF x < lo THEN lo ELSE IF x > hi THEN hi ELSE x

\* BatchProcessor::new
BatchProcessor_new(workers_arg) ==
    [workers |-> clamp(workers_arg, 1, 16),
     max_concurrent_encodes |-> 2,
     retry_config |-> RetryConfig_new]

\* BatchProcessor::with_options
BatchProcessor_with_options(workers_arg, max_concurrent_encodes_arg, config) ==
    [workers |-> clamp(workers_arg, 1, 16),
     max_concurrent_encodes |-> clamp(max_concurrent_encodes_arg, 1, 16),
     retry_config |-> config]

\* values handed to the constructor
WorkerArgs == {0, 100}
EncodeArgs == {0, 2, 100}

\* ProcessingResult
ProcessingResult_success(book) ==
    [book_name |-> book, success |-> TRUE, error_message |-> <<>>]
ProcessingResult_failure(book, message) ==
    [book_name |-> book, success |-> FALSE, error_message |-> message]

\* .unwrap_or_else(|e| ProcessingResult::new(..).failure(format!("All retries failed: {}", e), 0.0))
unit_result(book, ret) ==
    IF ret.tag = "Ok"
    THEN ProcessingResult_success(book)
    ELSE ProcessingResult_failure(book, Pre_all_retries_failed \o to_string(ret.err))

Books == 1..total_books

\* a spawned task: waiting for its permit, in smart_retry_async, sending, or over.
\* retry is the state of its smart_retry_async call, dropped with the call's value
\* when the result is moved into the channel; last is what process_single_book
\* returned the last time it ran for this book.
UnitStart == [pc |-> "unspawned", retry |-> RetryStart, last |-> None]

\* units that hold a permit of encode_semaphore
Holding == {i \in Books : unit[i].pc \in {"retry", "send", "sent"}}

\* units spawned and not yet finished
InFlight == {i \in Books : unit[i].pc \in {"acquire", "retry", "send", "sent"}}

BatchIdle ==
    /\ workers = 1 /\ max_concurrent_encodes = 1 /\ retry_config = RetryConfig_new
    /\ books = <<>> /\ total_books = 0 /\ main_pc = "idle" /\ spawned = 0 /\ unit = <<>>
    /\ permits = 0 /\ senders = 0 /\ channel = <<>> /\ results = <<>> /\ joined = 0

Init ==
    /\ \E w \in WorkerArgs, m \in EncodeArgs, r \in 0..BatchMaxRetries :
          LET bp == BatchProcessor_with_options(w, m, with_settings(r, 1, 30, 2))
          IN  /\ workers = bp.workers
              /\ max_concurrent_encodes = bp.max_concurrent_encodes
              /\ retry_config = bp.retry_config
    /\ total_books \in 0..MaxBooks
    /\ books = [i \in 1..total_books |-> ProcessBookOutcomes]
    /\ main_pc = "start"
    /\ spawned = 0
    /\ unit = [i \in 1..total_books |-> UnitStart]
    /\ permits = 0 /\ senders = 0 /\ channel = <<>> /\ results = <<>> /\ joined = 0
    /\ ClassifyIdle /\ DelayIdle /\ RetryIdle /\ LibraryIdle
    /\ ShelfIdle

other_vars == <<classify_vars, delay_vars, retry_vars, library_vars, shelf_vars>>
config_vars == <<workers, max_concurrent_encodes, retry_config, books, total_books>>

\* process_batch, lines 65-69: an empty list returns at once
ReturnEmpty ==
    /\ main_pc = "start" /\ total_books = 0
    /\ main_pc' = "done"
    /\ UNCHANGED <<config_vars, spawned, unit, permits, senders, channel, results, joined,
                   other_vars>>

\* lines 79-82: the semaphore and the channel are created
CreatePool ==
    /\ main_pc = "start" /\ total_books > 0
    /\ permits' = max_concurrent_encodes
    /\ senders' = 1
    /\ main_pc' = "spawn"
    /\ UNCHANGED <<config_vars, spawned, unit, channel, results, joined, other_vars>>

\* lines 87-132: one iteration of the spawn loop
Spawn ==
    /\ main_pc = "spawn" /\ spawned < total_books
    /\ unit' = [unit EXCEPT ![spawned + 1].pc = "acquire"]
    /\ senders' = senders + 1
    /\ spawned' = spawned + 1
    /\ UNCHANGED <<config_vars, main_pc, permits, channel, results, joined, other_vars>>

\* line 135: drop(result_tx)
DropSender ==
    /\ main_pc = "spawn" /\ spawned = total_books
    /\ senders' = senders - 1
    /\ main_pc' = "collect"
    /\ UNCHANGED <<config_vars, spawned, unit, permits, channel, results, joined, other_vars>>

\* lines 139-141: recv() yields a buffered result
Recv ==
    /\ main_pc = "collect" /\ channel # <<>>
    /\ results' = Append(results, Head(channel))
    /\ channel' = Tail(channel)
    /\ UNCHANGED <<config_vars, main_pc, spawned, unit, permits, senders, joined, other_vars>>

\* faulty variant: recv() yields None as soon as the channel is empty
RecvClosed_on_empty ==
    /\ main_pc = "collect" /\ channel = <<>>
    /\ main_pc' = "join"
    /\ UNCHANGED <<config_vars, spawned, unit, permits, senders, channel, results, joined,
                   other_vars>>

\* line 139: recv() yields None, the channel is empty and every sender is dropped
RecvClosed ==
    /\ main_pc = "collect" /\ channel = <<>> /\ senders = 0
    /\ main_pc' = "join"
    /\ UNCHANGED <<config_vars, spawned, unit, permits, senders, channel, results, joined,
                   other_vars>>

\* lines 144-146: the next handle is awaited
Join ==
    /\ main_pc = "join" /\ joined < total_books
    /\ unit[joined + 1].pc = "finished"
    /\ joined' = joined + 1
    /\ UNCHANGED <<config_vars, main_pc, spawned, unit, permits, senders, channel, results,
                   other_vars>>

\* line 154: results is returned
Return ==
    /\ main_pc = "join" /\ joined = total_books
    /\ main_pc' = "done"
    /\ UNCHANGED <<config_vars, spawned, unit, permits, senders, channel, results, joined,
                   other_vars>>

\* faulty variant: the unit goes on without waiting for a free permit
Acquire_without_waiting(i) ==
    /\ unit[i].pc = "acquire"
    /\ permits' = permits - 1
    /\ unit' = [unit EXCEPT ![i].pc = "retry"]
    /\ UNCHANGED <<config_vars, main_pc, spawned, senders, channel, results, joined,
                   other_vars>>

\* line 99: encode_semaphore.acquire().await
Acquire(i) ==
    /\ unit[i].pc = "acquire"
    /\ permits > 0
    /\ permits' = permits - 1
    /\ unit' = [unit EXCEPT ![i].pc = "retry"]
    /\ UNCHANGED <<config_vars, main_pc, spawned, senders, channel, results, joined,
                   other_vars>>

\* lines 109-118: smart_retry_async invokes process_single_book
Invoke(i) ==
    /\ unit[i].pc = "retry" /\ unit[i].retry.pc = "call"
    /\ unit' = [unit EXCEPT ![i].retry = RetryInvoke(@)]
    /\ UNCHANGED <<config_vars, main_pc, spawned, permits, senders, channel, results, joined,
                   other_vars>>

\* lines 109-119: process_single_book returns; smart_retry_async sleeps or returns
ProcessorReturns(i) ==
    /\ unit[i].pc = "retry" /\ unit[i].retry.pc = "in_call"
    /\ \E outcome \in books[i] :
          LET after == smart_retry_async(retry_config, unit[i].retry, outcome)
          IN  unit' = [unit EXCEPT ![i] =
                          [pc |-> IF after.pc = "returned" THEN "send" ELSE "retry",
                           retry |-> after, last |-> outcome]]
    /\ UNCHANGED <<config_vars, main_pc, spawned, permits, senders, channel, results, joined,
                   other_vars>>

\* retry.rs line 190: the backoff sleep ends
Wake(i) ==
    /\ unit[i].pc = "retry" /\ unit[i].retry.pc = "sleep"
    /\ unit' = [unit EXCEPT ![i].retry = RetryWake(@)]
    /\ UNCHANGED <<config_vars, main_pc, spawned, permits, senders, channel, results, joined,
                   other_vars>>

\* faulty variant: the permit is given back as the result is sent
Send_dropping_permit(i) ==
    /\ unit[i].pc = "send"
    /\ Len(channel) < total_books
    /\ channel' = Append(channel, unit_result(i, unit[i].retry.ret))
    /\ unit' = [unit EXCEPT ![i].pc = "sent", ![i].retry = RetryStart]
    /\ permits' = permits + 1
    /\ UNCHANGED <<config_vars, main_pc, spawned, senders, results, joined,
                   other_vars>>

\* lines 120-128: the ProcessingResult is made of what smart_retry_async returned and
\* result_tx.send(result).await puts it in the channel, which holds total_books results
Send(i) ==
    /\ unit[i].pc = "send"
    /\ Len(channel) < total_books
    /\ channel' = Append(channel, unit_result(i, unit[i].retry.ret))
    /\ unit' = [unit EXCEPT ![i].pc = "sent", ![i].retry = RetryStart]
    /\ UNCHANGED <<config_vars, main_pc, spawned, permits, senders, results, joined,
                   other_vars>>

\* faulty variant: the task ends without giving its permit back
Finish_keeping_permit(i) ==
    /\ unit[i].pc = "sent"
    /\ permits' = permits
    /\ senders' = senders - 1
    /\ unit' = [unit EXCEPT ![i].pc = "finished"]
    /\ UNCHANGED <<config_vars, main_pc, spawned, channel, results, joined, other_vars>>

\* line 129: the task ends; _permit and its result_tx clone are dropped
Finish(i) ==
    /\ unit[i].pc = "sent"
    /\ permits' = permits + 1
    /\ senders' = senders - 1
    /\ unit' = [unit EXCEPT ![i].pc = "finished"]
    /\ UNCHANGED <<config_vars, main_pc, spawned, channel, results, joined, other_vars>>

Next ==
    \/ ReturnEmpty \/ CreatePool \/ Spawn \/ DropSender \/ Recv \/ RecvClosed \/ Join \/ Return
    \/ \E i \in Books :
          Acquire(i) \/ Invoke(i) \/ ProcessorReturns(i) \/ Wake(i) \/ Send(i) \/ Finish(i)

Spec == Init /\ [][Next]_vars

\* the steps of process_batch itself, and of the task spawned for book i
MainStep ==
    ReturnEmpty \/ CreatePool \/ Spawn \/ DropSender \/ Recv \/ RecvClosed \/ Join \/ Return

UnitStep(i) ==
    Acquire(i) \/ Invoke(i) \/ ProcessorReturns(i) \/ Wake(i) \/ Send(i) \/ Finish(i)

\* The tokio runtime polls every task that can make progress, process_single_book
\* returns (the tools end) and tokio::time::sleep elapses: no step of process_batch
\* or of a spawned task stays possible for ever without being taken.
Fairness ==
    /\ WF_vars(MainStep)
    /\ \A i \in 1..MaxBooks : WF_vars(i \in Books /\ UnitStep(i))

SpecLive == Init /\ [][Next]_vars /\ Fairness

(***************************************************************************)
(* SpecThreeBooks: process_batch on three books, BatchProcessor::new(4).    *)
(* Book 2 has a missing track, so that its Processor always fails with a   *)
(* Permanent error; the Processor of books 1 and 3 succeeds, at once or    *)
(* after the audio tool has failed.                                        *)
(***************************************************************************)
InitThreeBooks ==
    /\ LET bp == BatchProcessor_new(4)
       IN  /\ workers = bp.workers
           /\ max_concurrent_encodes = bp.max_concurrent_encodes
           /\ retry_config = bp.retry_config
    /\ total_books = 3
    /\ books = <<{Ok, Err(process_book_tool_error(Stderr_invalid_data))},
                 {Err(create_concat_file_error)},
                 {Ok, Err(process_book_tool_error(Stderr_invalid_data))}>>
    /\ main_pc = "start"
    /\ spawned = 0
    /\ unit = [i \in 1..total_books |-> UnitStart]
    /\ permits = 0 /\ senders = 0 /\ channel = <<>> /\ results = <<>> /\ joined = 0
    /\ ClassifyIdle /\ DelayIdle /\ RetryIdle /\ LibraryIdle
    /\ ShelfIdle

NextThreeBooks ==
    \/ CreatePool \/ Spawn \/ DropSender \/ Recv \/ RecvClosed \/ Join \/ Return
    \/ \E i \in Books :
          Acquire(i) \/ Invoke(i) \/ ProcessorReturns(i) \/ Wake(i) \/ Send(i) \/ Finish(i)

SpecThreeBooks == InitThreeBooks /\ [][NextThreeBooks]_vars

(***************************************************************************)
(* SpecClassify: classify_error applied to one error                       *)
(***************************************************************************)
InitClassify ==
    /\ c_pc = "input"
    /\ c_error \in {anyhow(m) : m \in Messages}
    /\ c_type = "None"
    /\ DelayIdle /\ RetryIdle /\ BatchIdle /\ LibraryIdle /\ ShelfIdle

Classify ==
    /\ c_pc = "input"
    /\ c_type' = classify_error(c_error)
    /\ c_pc' = "done"
    /\ UNCHANGED <<c_error, delay_vars, retry_vars, batch_vars, shelf_vars, library_vars>>

NextClassify == Classify

SpecClassify == InitClassify /\ [][NextClassify]_vars

(***************************************************************************)
(* SpecDelay: calculate_delay applied to one RetryConfig and attempt       *)
(***************************************************************************)
InitDelay ==
    /\ d_pc = "input"
    /\ d_config \in {with_settings(2, i, m, b) :
                        i \in 0..MaxDelaySecs, m \in 0..MaxDelaySecs, b \in 0..MaxMultiplier}
    /\ d_attempt \in 0..MaxAttempt
    /\ d_delay = 0
    /\ ClassifyIdle /\ RetryIdle /\ BatchIdle /\ LibraryIdle
    /\ ShelfIdle

Delay ==
    /\ d_pc = "input"
    /\ d_delay' = calculate_delay(d_config, d_attempt)
    /\ d_pc' = "done"
    /\ UNCHANGED <<d_config, d_attempt, classify_vars, retry_vars, batch_vars, shelf_vars, library_vars>>

NextDelay == Delay

SpecDelay == InitDelay /\ [][NextDelay]_vars

(***************************************************************************)
(* SpecRetry: one run of retry_async or smart_retry_async                  *)
(***************************************************************************)
InitRetry ==
    /\ r_fn \in {"retry_async", "smart_retry_async"}
    /\ r_config \in RetryConfigs
    /\ r_state = RetryStart
    /\ r_outcomes = <<>>
    /\ ClassifyIdle /\ DelayIdle /\ BatchIdle /\ LibraryIdle
    /\ ShelfIdle

\* the loop invokes f
RetryCall ==
    /\ r_state.pc = "call"
    /\ r_state' = RetryInvoke(r_state)
    /\ UNCHANGED <<r_fn, r_config, r_outcomes, classify_vars, delay_vars, batch_vars, shelf_vars,
                   library_vars>>

\* f returns; the loop returns, or starts to sleep
RetryResult ==
    /\ r_state.pc = "in_call"
    /\ \E outcome \in OpOutcomes :
          /\ r_outcomes' = Append(r_outcomes, outcome)
          /\ r_state' = IF r_fn = "retry_async"
                        THEN retry_async(r_config, r_state, outcome)
                        ELSE smart_retry_async(r_config, r_state, outcome)
    /\ UNCHANGED <<r_fn, r_config, classify_vars, delay_vars, batch_vars, shelf_vars, library_vars>>

\* the sleep ends
RetrySleepDone ==
    /\ r_state.pc = "sleep"
    /\ r_state' = RetryWake(r_state)
    /\ UNCHANGED <<r_fn, r_config, r_outcomes, classify_vars, delay_vars, batch_vars, shelf_vars,
                   library_vars>>

NextRetry == RetryCall \/ RetryResult \/ RetrySleepDone

SpecRetry == InitRetry /\ [][NextRetry]_vars

(***************************************************************************)
(* models/quality.rs, models/track.rs, models/book.rs                      *)
(***************************************************************************)
\* codec names as ffprobe reports them, and in other letter cases
Codec_aac == <<"a","a","c">>
Codec_AAC == <<"A","A","C">>
Codec_mp3 == <<"m","p","3">>
Codec_MP3 == <<"M","P","3">>
Codec_mp3float == <<"m","p","3","f","l","o","a","t">>
Codec_flac == <<"f","l","a","c">>

\* the Display of an unsigned integer
RECURSIVE usize_to_string(_)
usize_to_string(n) ==
    LET digit == <<"0","1","2","3","4","5","6","7","8","9">>[(n % 10) + 1]
    IN  IF n < 10 THEN <<digit>> ELSE usize_to_string(n \div 10) \o <<digit>>

\* Option<T> with a value, and a Result<T> with a value
Some(v) == [tag |-> "Some", val |-> v]
OkOf(v) == [tag |-> "Ok", err |-> <<>>, val |-> v]
unwrap(r) == r.val

Pre_bitrate_must_be_positive == <<"B","i","t","r","a","t","e"," ","m","u","s","t"," ","b","e"," ","p","o","s","i","t","i","v","e",","," ","g","o","t"," ">>
Pre_sample_rate_must_be_positive == <<"S","a","m","p","l","e"," ","r","a","t","e"," ","m","u","s","t"," ","b","e"," ","p","o","s","i","t","i","v","e",","," ","g","o","t"," ">>
Pre_channels_must_be == <<"C","h","a","n","n","e","l","s"," ","m","u","s","t"," ","b","e"," ","1"," ","o","r"," ","2",","," ","g","o","t"," ">>

\* faulty variant: the number of channels is not checked
QualityProfile_new_any_channels(bitrate, sample_rate, channels, codec, duration) ==
    IF bitrate = 0 THEN Err(anyhow(Pre_bitrate_must_be_positive \o usize_to_string(bitrate)))
    ELSE IF sample_rate = 0
    THEN Err(anyhow(Pre_sample_rate_must_be_positive \o usize_to_string(sample_rate)))
    ELSE OkOf([bitrate |-> bitrate, sample_rate |-> sample_rate, channels |-> channels,
               codec |-> codec, duration |-> duration])

\* QualityProfile::new; the duration is in whole seconds
QualityProfile_new(bitrate, sample_rate, channels, codec, duration) ==
    IF bitrate = 0 THEN Err(anyhow(Pre_bitrate_must_be_positive \o usize_to_string(bitrate)))
    ELSE IF sample_rate = 0
    THEN Err(anyhow(Pre_sample_rate_must_be_positive \o usize_to_string(sample_rate)))
    ELSE IF channels # 1 /\ channels # 2
    THEN Err(anyhow(Pre_channels_must_be \o usize_to_string(channels)))
    ELSE OkOf([bitrate |-> bitrate, sample_rate |-> sample_rate, channels |-> channels,
               codec |-> codec, duration |-> duration])

\* Track::new
Track_new(file_path, quality) == [file_path |-> file_path, quality |-> quality]

\* faulty variant: the codec names are compared as they are
is_compatible_for_concat_case_sensitive(self, other) ==
    /\ self.bitrate = other.bitrate
    /\ self.sample_rate = other.sample_rate
    /\ self.channels = other.channels
    /\ self.codec = other.codec

\* QualityProfile::is_compatible_for_concat
is_compatible_for_concat(self, other) ==
    /\ self.bitrate = other.bitrate
    /\ self.sample_rate = other.sample_rate
    /\ self.channels = other.channels
    /\ to_lowercase(self.codec) = to_lowercase(other.codec)

\* is_better_than: the closure codec_priority
codec_priority(codec) ==
    LET lower == to_lowercase(codec)
    IN  IF lower = Codec_aac THEN 2 ELSE IF lower = Codec_mp3 THEN 1 ELSE 0

\* faulty variant: the sample rate is compared before the bitrate
is_better_than_sample_rate_first(self, other, prefer_stereo) ==
    IF self.sample_rate # other.sample_rate THEN self.sample_rate > other.sample_rate
    ELSE IF self.bitrate # other.bitrate THEN self.bitrate > other.bitrate
    ELSE IF self.channels # other.channels
    THEN (IF prefer_stereo THEN self.channels > other.channels
          ELSE self.channels < other.channels)
    ELSE codec_priority(self.codec) > codec_priority(other.codec)

\* faulty variant: a codec of equal priority counts as better
is_better_than_or_equal(self, other, prefer_stereo) ==
    IF self.bitrate # other.bitrate THEN self.bitrate > other.bitrate
    ELSE IF self.sample_rate # other.sample_rate THEN self.sample_rate > other.sample_rate
    ELSE IF self.channels # other.channels
    THEN (IF prefer_stereo THEN self.channels > other.channels
          ELSE self.channels < other.channels)
    ELSE codec_priority(self.codec) >= codec_priority(other.codec)

\* QualityProfile::is_better_than
is_better_than(self, other, prefer_stereo) ==
    IF self.bitrate # other.bitrate THEN self.bitrate > other.bitrate
    ELSE IF self.sample_rate # other.sample_rate THEN self.sample_rate > other.sample_rate
    ELSE IF self.channels # other.channels
    THEN (IF prefer_stereo THEN self.channels > other.channels
          ELSE self.channels < other.channels)
    ELSE codec_priority(self.codec) > codec_priority(other.codec)

\* u32::max
max(a, b) == IF a >= b THEN a ELSE b

\* QualityProfile::to_aac_equivalent
to_aac_equivalent(self) ==
    [bitrate |-> max(self.bitrate, 128), sample_rate |-> self.sample_rate,
     channels |-> self.channels, codec |-> Codec_aac, duration |-> self.duration]

Preset_low == <<"l","o","w">>
Preset_medium == <<"m","e","d","i","u","m">>
Preset_high == <<"h","i","g","h">>
Preset_HIGH == <<"H","I","G","H">>
Preset_source == <<"s","o","u","r","c","e">>
Preset_ultra == <<"u","l","t","r","a">>

\* faulty variant: the low preset keeps the channels of the source
from_preset_keeping_channels(preset, source) ==
    LET lower == to_lowercase(preset)
    IN  IF lower = Preset_low
        THEN Some([bitrate |-> 64, sample_rate |-> 22050, channels |-> source.channels,
                   codec |-> Codec_aac, duration |-> source.duration])
        ELSE IF lower = Preset_medium
        THEN Some([bitrate |-> 96, sample_rate |-> 44100, channels |-> 2,
                   codec |-> Codec_aac, duration |-> source.duration])
        ELSE IF lower = Preset_high
        THEN Some([bitrate |-> 128, sample_rate |-> 48000, channels |-> 2,
                   codec |-> Codec_aac, duration |-> source.duration])
        ELSE None

\* QualityProfile::from_preset
from_preset(preset, source) ==
    LET lower == to_lowercase(preset)
    IN  IF lower = Preset_low
        THEN Some([bitrate |-> 64, sample_rate |-> 22050, channels |-> 1,
                   codec |-> Codec_aac, duration |-> source.duration])
        ELSE IF lower = Preset_medium
        THEN Some([bitrate |-> 96, sample_rate |-> 44100, channels |-> 2,
                   codec |-> Codec_aac, duration |-> source.duration])
        ELSE IF lower = Preset_high
        THEN Some([bitrate |-> 128, sample_rate |-> 48000, channels |-> 2,
                   codec |-> Codec_aac, duration |-> source.duration])
        ELSE None

\* QualityProfile::apply_preset; preset is an Option<&str>
apply_preset(self, preset) ==
    IF preset.tag = "None" THEN self
    ELSE LET made == from_preset(preset.val, self)
         IN  IF made.tag = "None" THEN self ELSE made.val


\* faulty variant: only the first track's codec is looked at
can_use_concat_copy_first_only(ts) ==
    IF Len(ts) = 0 THEN FALSE
    ELSE LET first_codec == to_lowercase(ts[1].quality.codec)
         IN  ~(first_codec = Codec_mp3 \/ first_codec = Codec_mp3float)

\* BookFolder::can_use_concat_copy
can_use_concat_copy(ts) ==
    IF Len(ts) = 0 THEN FALSE
    ELSE LET first_codec == to_lowercase(ts[1].quality.codec)
         IN  IF first_codec = Codec_mp3 \/ first_codec = Codec_mp3float THEN FALSE
             ELSE IF Len(ts) <= 1 THEN TRUE
             ELSE \A i \in 2..Len(ts) :
                     is_compatible_for_concat(ts[1].quality, ts[i].quality)

(***************************************************************************)
(* core/processor.rs: Processor::process_book, one invocation              *)
(***************************************************************************)
\* what std::io::Error displays when the operating system refuses
Msg_os_error == <<"P","e","r","m","i","s","s","i","o","n"," ","d","e","n","i","e","d"," ","(","o","s"," ","e","r","r","o","r"," ","1","3",")">>
\* processor.rs:70
Ctx_create_output_dir == <<"F","a","i","l","e","d"," ","t","o"," ","c","r","e","a","t","e"," ","o","u","t","p","u","t"," ","d","i","r","e","c","t","o","r","y">>
\* processor.rs:366
Ctx_create_temp_dir == <<"F","a","i","l","e","d"," ","t","o"," ","c","r","e","a","t","e"," ","t","e","m","p"," ","d","i","r","e","c","t","o","r","y">>
\* processor.rs:93
Ctx_no_tracks == <<"N","o"," ","t","r","a","c","k","s"," ","f","o","u","n","d">>
\* processor.rs:133, 235
Ctx_concat == <<"F","a","i","l","e","d"," ","t","o"," ","c","o","n","c","a","t","e","n","a","t","e"," ","a","u","d","i","o"," ","f","i","l","e","s">>
\* processor.rs:213
Ctx_concat_encoded == <<"F","a","i","l","e","d"," ","t","o"," ","c","o","n","c","a","t","e","n","a","t","e"," ","e","n","c","o","d","e","d"," ","f","i","l","e","s">>
\* processor.rs:189
Pre_track == <<"T","r","a","c","k"," ">>
\* processor.rs:189
Post_encoding_failed == <<" ","e","n","c","o","d","i","n","g"," ","f","a","i","l","e","d">>
\* processor.rs:248, chapters.rs:162
Ctx_write_chapters == <<"F","a","i","l","e","d"," ","t","o"," ","w","r","i","t","e"," ","c","h","a","p","t","e","r"," ","f","i","l","e">>
\* processor.rs:252
Ctx_inject_chapters == <<"F","a","i","l","e","d"," ","t","o"," ","i","n","j","e","c","t"," ","c","h","a","p","t","e","r","s">>
\* processor.rs:280
Ctx_inject_metadata == <<"F","a","i","l","e","d"," ","t","o"," ","i","n","j","e","c","t"," ","m","e","t","a","d","a","t","a">>
\* ffmpeg.rs:297
Ctx_write_concat == <<"F","a","i","l","e","d"," ","t","o"," ","w","r","i","t","e"," ","c","o","n","c","a","t"," ","f","i","l","e">>
\* ffmpeg.rs:197
Pre_concatenation_failed == <<"F","F","m","p","e","g"," ","c","o","n","c","a","t","e","n","a","t","i","o","n"," ","f","a","i","l","e","d",":"," ">>
\* chapters.rs:181
Pre_mp4box_failed == <<"M","P","4","B","o","x"," ","f","a","i","l","e","d",":"," ">>
\* metadata.rs:103
Pre_atomicparsley_failed == <<"A","t","o","m","i","c","P","a","r","s","l","e","y"," ","f","a","i","l","e","d",":"," ">>

\* usize::min
min(a, b) == IF a <= b THEN a ELSE b

\* format!("Track {} encoding failed", i)
Msg_track_failed(i) == Pre_track \o usize_to_string(i) \o Post_encoding_failed

\* std::io::Error of a refused file-system operation
io_error == anyhow(Msg_os_error)

\* FFmpeg::concat_audio_files on a non-zero exit status
concat_audio_files_error(stderr) == anyhow(Pre_concatenation_failed \o stderr)

\* inject_chapters_mp4box on a non-zero exit status
inject_chapters_error(stderr) == anyhow(Pre_mp4box_failed \o stderr)

\* inject_metadata_atomicparsley on a non-zero exit status
inject_metadata_error(stderr) == anyhow(Pre_atomicparsley_failed \o stderr)

\* faulty variant: parallel encoding is tried before copy mode
strategy_parallel_first(track_count, copy, parallel) ==
    IF track_count = 1 THEN "SingleFile"
    ELSE IF parallel /\ track_count > 1 THEN "ParallelTranscode"
    ELSE IF copy THEN "DirectConcatCopy"
    ELSE "SerialTranscode"

\* process_book, lines 102, 114, 134, 214: the branch taken for the audio
strategy(track_count, copy, parallel) ==
    IF track_count = 1 THEN "SingleFile"
    ELSE IF copy THEN "DirectConcatCopy"
    ELSE IF parallel /\ track_count > 1 THEN "ParallelTranscode"
    ELSE "SerialTranscode"

\* the branch of this invocation
Strategy == strategy(Len(tracks), use_copy, enable_parallel_encoding)

\* a call of an external tool by process_book: which function, with which
\* use_copy argument, on which inputs, writing to which file
Call(fn, copy, input, output) == [fn |-> fn, use_copy |-> copy, input |-> input, output |-> output]

\* temp_dir.join("concat.txt"), temp_dir.join("chapters.txt"),
\* temp_dir.join(format!("encoded_{:04}.m4a", i))
concat_file == <<"concat.txt", 0>>
chapters_file == <<"chapters.txt", 0>>
encoded_file(i) == <<"encoded.m4a", i>>

\* Processor::with_options
Processor_with_options(keep_temp_arg, enable_parallel_encoding_arg, max_concurrent_files_arg) ==
    [keep_temp |-> keep_temp_arg,
     enable_parallel_encoding |-> enable_parallel_encoding_arg,
     max_concurrent_files |-> clamp(max_concurrent_files_arg, 1, 32)]

\* max_concurrent_files arguments: below, inside and above the clamp range
FileArgs == {0, 2, 100}

\* the books handed to process_book: n tracks of one profile, which makes an
\* AAC book eligible for copy mode and an MP3 book not; and AAC books whose
\* second track has another bitrate
track_path(i) == usize_to_string(i) \o <<".","m","p","3">>
UniformBook(n, codec) ==
    [i \in 1..n |-> Track_new(track_path(i), unwrap(QualityProfile_new(128, 44100, 2, codec, 3600)))]
MixedBook(n) ==
    [i \in 1..n |-> Track_new(track_path(i),
                     unwrap(QualityProfile_new(IF i = 2 THEN 64 ELSE 128, 44100, 2, Codec_aac, 3600)))]
BookTracks ==
    {UniformBook(n, c) : n \in 0..MaxTracks, c \in {Codec_aac, Codec_mp3}}
        \cup {MixedBook(n) : n \in 2..MaxTracks}

\* the number of chapters generate_chapters makes for a book without a CUE file
chapter_count ==
    IF chapter_source = "none" \/ chapter_source = "cue" THEN 0
    ELSE IF Len(tracks) > 1 THEN Len(tracks) ELSE 0

InitBook ==
    /\ \E k \in BOOLEAN, p \in BOOLEAN, m \in FileArgs :
          LET pr == Processor_with_options(k, p, m)
          IN  /\ keep_temp = pr.keep_temp
              /\ enable_parallel_encoding = pr.enable_parallel_encoding
              /\ max_concurrent_files = pr.max_concurrent_files
    /\ tracks \in BookTracks
    /\ chapter_source \in {"auto", "none"}
    /\ book_pc = "start"
    /\ use_copy = FALSE
    /\ tasks = [i \in 1..Len(tracks) |-> "unspawned"]
    /\ semaphore = 0 /\ awaited = 0
    /\ output_exists = FALSE
    /\ temp_dir_exists \in BOOLEAN
    /\ temp_files = IF temp_dir_exists THEN {concat_file} ELSE {}
    /\ calls = <<>>
    /\ cleanup_failed = FALSE
    /\ book_ret = None
    /\ ClassifyIdle /\ DelayIdle /\ RetryIdle /\ BatchIdle /\ CopyIdle /\ CaseIdle /\ OrderIdle /\ ScanIdle
    /\ ShelfIdle

book_others == <<classify_vars, delay_vars, retry_vars, batch_vars, shelf_vars, copy_vars, case_vars,
                 order_vars, scan_vars>>
book_config == <<keep_temp, enable_parallel_encoding, max_concurrent_files, tracks,
                 chapter_source>>
book_rest == <<book_config, cleanup_failed, book_others>>

\* process_book returns Err(e) from position book_pc
Fail(e) == book_ret' = Err(e) /\ book_pc' = "returned"

\* lines 67-71: the output directory is made when it does not exist
CreateOutputDir ==
    /\ book_pc = "start"
    /\ \/ book_pc' = "create_temp_dir" /\ UNCHANGED book_ret
       \/ Fail(context(io_error, Ctx_create_output_dir))
    /\ UNCHANGED <<book_rest, use_copy, tasks, semaphore, awaited, output_exists,
                   temp_dir_exists, temp_files, calls>>

\* line 78, create_temp_dir: a directory left by an earlier run is removed (a
\* failure to remove it is ignored), then the directory is made
CreateTempDir ==
    /\ book_pc = "create_temp_dir"
    /\ \/ /\ temp_dir_exists' = TRUE
          /\ temp_files' \in {{}, temp_files}
          /\ book_pc' = "prepare" /\ UNCHANGED book_ret
       \/ /\ temp_dir_exists' \in {FALSE, temp_dir_exists}
          /\ temp_files' = IF temp_dir_exists' THEN temp_files ELSE {}
          /\ Fail(context(io_error, Ctx_create_temp_dir))
    /\ UNCHANGED <<book_rest, use_copy, tasks, semaphore, awaited, output_exists, calls>>

\* lines 81-100 and the choice of the branch: use_copy and the quality profile
\* are taken from the tracks; a book without tracks has no profile
Prepare ==
    /\ book_pc = "prepare"
    /\ use_copy' = can_use_concat_copy(tracks)
    /\ IF Len(tracks) = 0
       THEN Fail(anyhow(Ctx_no_tracks)) /\ UNCHANGED semaphore
       ELSE LET s == strategy(Len(tracks), use_copy', enable_parallel_encoding)
            IN  /\ book_pc' = CASE s = "SingleFile" -> "convert"
                                [] s = "ParallelTranscode" -> "spawn"
                                [] OTHER -> "create_concat_file"
                /\ semaphore' = IF s = "ParallelTranscode"
                                THEN min(max_concurrent_files, Len(tracks))
                                ELSE semaphore
                /\ UNCHANGED book_ret
    /\ UNCHANGED <<book_rest, tasks, awaited, output_exists, temp_dir_exists,
                   temp_files, calls>>

\* lines 104-113: the single track is converted straight to output_path
Convert ==
    /\ book_pc = "convert"
    /\ calls' = Append(calls, Call("convert_single_file", use_copy, "tracks", "output_path"))
    /\ \/ output_exists' = TRUE /\ book_pc' = "chapters" /\ UNCHANGED book_ret
       \/ \E stderr \in ToolStderr :
             Fail(process_book_tool_error(stderr)) /\ UNCHANGED output_exists
    /\ UNCHANGED <<book_rest, use_copy, tasks, semaphore, awaited, temp_dir_exists,
                   temp_files>>

\* lines 151-182: the next track's encoding task is spawned
SpawnTask ==
    /\ book_pc = "spawn"
    /\ LET i == Cardinality({j \in 1..Len(tasks) : tasks[j] # "unspawned"}) + 1
       IN  /\ tasks' = [tasks EXCEPT ![i] = "waiting"]
           /\ book_pc' = IF i = Len(tasks) THEN "await" ELSE "spawn"
    /\ UNCHANGED <<book_rest, use_copy, semaphore, awaited, output_exists,
                   temp_dir_exists, temp_files, calls, book_ret>>

\* faulty variant: the task starts to encode without a permit
TaskAcquire_without_permit(i) ==
    /\ tasks[i] = "waiting"
    /\ tasks' = [tasks EXCEPT ![i] = "encoding"]
    /\ UNCHANGED <<book_rest, book_pc, use_copy, semaphore, awaited, output_exists,
                   temp_dir_exists, temp_files, calls, book_ret>>

\* line 173: the task gets a permit and starts convert_single_file
TaskAcquire(i) ==
    /\ tasks[i] = "waiting"
    /\ semaphore > 0
    /\ semaphore' = semaphore - 1
    /\ tasks' = [tasks EXCEPT ![i] = "encoding"]
    /\ UNCHANGED <<book_rest, book_pc, use_copy, awaited, output_exists,
                   temp_dir_exists, temp_files, calls, book_ret>>

\* lines 175-179: convert_single_file returns, the permit is dropped; on success
\* the encoded track is in temp_dir
TaskReturns(i) ==
    /\ tasks[i] = "encoding"
    /\ semaphore' = semaphore + 1
    /\ \/ /\ tasks' = [tasks EXCEPT ![i] = "ok"]
          /\ temp_files' = IF temp_dir_exists THEN temp_files \cup {encoded_file(i - 1)}
                           ELSE temp_files
       \/ /\ tasks' = [tasks EXCEPT ![i] = "err"]
          /\ UNCHANGED temp_files
    /\ UNCHANGED <<book_rest, book_pc, use_copy, awaited, output_exists,
                   temp_dir_exists, calls, book_ret>>

\* faulty variant: any failed task is reported as soon as it has failed
AwaitTask_any_order ==
    /\ book_pc = "await"
    /\ \/ /\ tasks[awaited + 1] = "ok"
          /\ awaited' = awaited + 1
          /\ book_pc' = IF awaited' = Len(tasks) THEN "create_concat_file" ELSE "await"
          /\ UNCHANGED book_ret
       \/ \E j \in 1..Len(tasks), stderr \in ToolStderr :
             /\ tasks[j] = "err"
             /\ Fail(context(convert_single_file_error(stderr), Msg_track_failed(j - 1)))
             /\ UNCHANGED awaited
    /\ UNCHANGED <<book_rest, use_copy, tasks, semaphore, output_exists,
                   temp_dir_exists, temp_files, calls>>

\* lines 185-195: the tasks are awaited in the order of the tracks; the first
\* one that has failed ends process_book (the other tasks are left running)
AwaitTask ==
    /\ book_pc = "await"
    /\ \/ /\ tasks[awaited + 1] = "ok"
          /\ awaited' = awaited + 1
          /\ book_pc' = IF awaited' = Len(tasks) THEN "create_concat_file" ELSE "await"
          /\ UNCHANGED book_ret
       \/ \E stderr \in ToolStderr :
             /\ tasks[awaited + 1] = "err"
             /\ Fail(context(convert_single_file_error(stderr), Msg_track_failed(awaited)))
             /\ UNCHANGED awaited
    /\ UNCHANGED <<book_rest, use_copy, tasks, semaphore, output_exists,
                   temp_dir_exists, temp_files, calls>>

\* lines 116-122, 200-202, 218-224: the concat list is written into temp_dir;
\* FFmpeg::create_concat_file fails on a listed file that does not exist, or
\* when the list cannot be written
CreateConcatFile ==
    /\ book_pc = "create_concat_file"
    /\ \/ /\ temp_files' = temp_files \cup {concat_file}
          /\ book_pc' = "concat" /\ UNCHANGED book_ret
       \/ /\ Strategy # "ParallelTranscode"
          /\ Fail(create_concat_file_error) /\ UNCHANGED temp_files
       \/ Fail(context(io_error, Ctx_write_concat)) /\ UNCHANGED temp_files
    /\ UNCHANGED <<book_rest, use_copy, tasks, semaphore, awaited, output_exists,
                   temp_dir_exists, calls>>

\* lines 124-133, 204-213, 226-235: one concat_audio_files call writes output_path
Concat ==
    /\ book_pc = "concat"
    /\ LET parallel == Strategy = "ParallelTranscode"
           copy == IF parallel THEN TRUE
                   ELSE IF Strategy = "DirectConcatCopy" THEN use_copy ELSE FALSE
       IN  /\ calls' = Append(calls, Call("concat_audio_files", copy,
                                  IF parallel THEN "encoded_files" ELSE "tracks",
                                  "output_path"))
           /\ \/ output_exists' = TRUE /\ book_pc' = "chapters" /\ UNCHANGED book_ret
              \/ \E stderr \in ToolStderr :
                    /\ Fail(context(concat_audio_files_error(stderr),
                                    IF parallel THEN Ctx_concat_encoded ELSE Ctx_concat))
                    /\ UNCHANGED output_exists
    /\ UNCHANGED <<book_rest, use_copy, tasks, semaphore, awaited, temp_dir_exists,
                   temp_files>>

\* faulty variant: the chapter file is written and injected even without chapters
WriteChapters_unconditional ==
    /\ book_pc = "chapters"
    /\ \/ /\ temp_files' = temp_files \cup {chapters_file}
          /\ book_pc' = "inject_chapters" /\ UNCHANGED book_ret
       \/ /\ Fail(context(context(io_error, Ctx_write_chapters), Ctx_write_chapters))
          /\ UNCHANGED temp_files
    /\ UNCHANGED <<book_rest, use_copy, tasks, semaphore, awaited, output_exists,
                   temp_dir_exists, calls>>

\* lines 241-248: the chapters are generated and, when there are any, written
\* into temp_dir
WriteChapters ==
    /\ book_pc = "chapters"
    /\ IF chapter_count = 0
       THEN book_pc' = "metadata" /\ UNCHANGED <<temp_files, book_ret>>
       ELSE \/ /\ temp_files' = temp_files \cup {chapters_file}
               /\ book_pc' = "inject_chapters" /\ UNCHANGED book_ret
            \/ /\ Fail(context(context(io_error, Ctx_write_chapters), Ctx_write_chapters))
               /\ UNCHANGED temp_files
    /\ UNCHANGED <<book_rest, use_copy, tasks, semaphore, awaited, output_exists,
                   temp_dir_exists, calls>>

\* lines 250-252: MP4Box rewrites the file at output_path
InjectChapters ==
    /\ book_pc = "inject_chapters"
    /\ calls' = Append(calls, Call("inject_chapters_mp4box", FALSE, "chapters_file",
                                   "output_path"))
    /\ \/ book_pc' = "metadata" /\ UNCHANGED book_ret
       \/ \E stderr \in ToolStderr :
             Fail(context(inject_chapters_error(stderr), Ctx_inject_chapters))
    /\ UNCHANGED <<book_rest, use_copy, tasks, semaphore, awaited, output_exists,
                   temp_dir_exists, temp_files>>

\* lines 270-280: AtomicParsley rewrites the file at output_path
InjectMetadata ==
    /\ book_pc = "metadata"
    /\ calls' = Append(calls, Call("inject_metadata_atomicparsley", FALSE, "metadata",
                                   "output_path"))
    /\ \/ book_pc' = "cleanup" /\ UNCHANGED book_ret
       \/ \E stderr \in ToolStderr :
             Fail(context(inject_metadata_error(stderr), Ctx_inject_metadata))
    /\ UNCHANGED <<book_rest, use_copy, tasks, semaphore, awaited, output_exists,
                   temp_dir_exists, temp_files>>

\* lines 285-301: temp_dir is removed unless keep_temp (a failure to remove it
\* is logged), and process_book returns the success result
Cleanup ==
    /\ book_pc = "cleanup"
    /\ book_pc' = "returned"
    /\ book_ret' = Ok
    /\ IF keep_temp
       THEN UNCHANGED <<temp_dir_exists, temp_files, cleanup_failed>>
       ELSE \/ temp_dir_exists' = FALSE /\ temp_files' = {} /\ UNCHANGED cleanup_failed
            \/ cleanup_failed' = TRUE /\ UNCHANGED <<temp_dir_exists, temp_files>>
    /\ UNCHANGED <<book_config, book_others, use_copy, tasks, semaphore, awaited,
                   output_exists, calls>>

NextBook ==
    \/ CreateOutputDir \/ CreateTempDir \/ Prepare \/ Convert \/ SpawnTask \/ AwaitTask
    \/ CreateConcatFile \/ Concat \/ WriteChapters \/ InjectChapters \/ InjectMetadata
    \/ Cleanup
    \/ \E i \in 1..Len(tasks) : TaskAcquire(i) \/ TaskReturns(i)

SpecBook == InitBook /\ [][NextBook]_vars

(***************************************************************************)
(* SpecCopy: can_use_concat_copy applied to one list of tracks             *)
(***************************************************************************)
\* the profiles ffprobe may report for a track: AAC, MP3 and FLAC codecs, codec
\* names in other letter cases, and a second bitrate
Profiles ==
    {unwrap(QualityProfile_new(128, 44100, 2, c, 3600)) :
        c \in {Codec_aac, Codec_AAC, Codec_mp3, Codec_MP3, Codec_mp3float, Codec_flac}}
        \cup {unwrap(QualityProfile_new(64, 44100, 2, Codec_aac, 3600))}

RECURSIVE TrackLists(_)
TrackLists(n) ==
    IF n = 0 THEN {<<>>}
    ELSE TrackLists(n - 1)
            \cup {Append(ts, Track_new(track_path(Len(ts) + 1), q)) :
                      ts \in {l \in TrackLists(n - 1) : Len(l) = n - 1}, q \in Profiles}

InitCopy ==
    /\ copy_pc = "input"
    /\ copy_tracks \in TrackLists(MaxProfiles)
    /\ copy_result = FALSE
    /\ ClassifyIdle /\ DelayIdle /\ RetryIdle /\ BatchIdle /\ BookIdle /\ CaseIdle /\ OrderIdle /\ ScanIdle
    /\ ShelfIdle

CanUseConcatCopy ==
    /\ copy_pc = "input"
    /\ copy_result' = can_use_concat_copy(copy_tracks)
    /\ copy_pc' = "done"
    /\ UNCHANGED <<copy_tracks, classify_vars, delay_vars, retry_vars, batch_vars, shelf_vars, book_vars,
                   case_vars, order_vars, scan_vars>>

NextCopy == CanUseConcatCopy

SpecCopy == InitCopy /\ [][NextCopy]_vars

(***************************************************************************)
(* SpecCase: BookFolder::classify called on one folder, twice               *)
(***************************************************************************)
\* faulty variant: the mp3 bucket is looked at before the m4b bucket
classify_mp3_first(mp3_files, m4b_files) ==
    LET mp3_count == Len(mp3_files)
        m4b_count == Len(m4b_files)
    IN  IF mp3_count > 1 THEN "A"
        ELSE IF mp3_count = 1 THEN "B"
        ELSE IF m4b_count > 0 THEN "C"
        ELSE "D"

\* BookFolder::classify: the case it assigns
classify(mp3_files, m4b_files) ==
    LET mp3_count == Len(mp3_files)
        m4b_count == Len(m4b_files)
    IN  IF m4b_count > 0 THEN "C"
        ELSE IF mp3_count > 1 THEN "A"
        ELSE IF mp3_count = 1 THEN "B"
        ELSE "D"

BookCase == {"A", "B", "C", "D"}

\* the lists of at most n file names taken from names
RECURSIVE FileLists(_, _)
FileLists(names, n) ==
    IF n = 0 THEN {<<>>}
    ELSE FileLists(names, n - 1)
            \cup {Append(l, f) : l \in {x \in FileLists(names, n - 1) : Len(x) = n - 1},
                                 f \in names}

\* a folder whose buckets were filled (or changed) since its case was last set
InitCase ==
    /\ folder \in [mp3_files : FileLists({"1.mp3", "2.m4a"}, MaxFiles),
                   m4b_files : FileLists({"book.m4b", "part2.m4b"}, MaxFiles),
                   case : BookCase]
    /\ classify_calls = 0
    /\ ClassifyIdle /\ DelayIdle /\ RetryIdle /\ BatchIdle /\ BookIdle /\ CopyIdle /\ OrderIdle /\ ScanIdle
    /\ ShelfIdle

ClassifyFolder ==
    /\ classify_calls < 2
    /\ folder' = [folder EXCEPT !.case = classify(folder.mp3_files, folder.m4b_files)]
    /\ classify_calls' = classify_calls + 1
    /\ UNCHANGED <<classify_vars, delay_vars, retry_vars, batch_vars, shelf_vars, book_vars, copy_vars,
                   order_vars, scan_vars>>

NextCase == ClassifyFolder

SpecCase == InitCase /\ [][NextCase]_vars

(***************************************************************************)
(* utils/sorting.rs, core/scanner.rs, core/analyzer.rs, core/processor.rs: *)
(* the order of a book's tracks from the scan to the audio tool.  The      *)
(* files of a book share their folder, so a path is compared by its file   *)
(* name.                                                                   *)
(***************************************************************************)
\* the characters of the file names, in the order of their code points
Ascii == <<" ",".","0","1","2","3","4","5","6","7","8","9",
           "A","B","C","D","E","F","G","H","I","J","K","L","M",
           "N","O","P","Q","R","S","T","U","V","W","X","Y","Z","_",
           "a","b","c","d","e","f","g","h","i","j","k","l","m",
           "n","o","p","q","r","s","t","u","v","w","x","y","z">>
char_code(c) == CHOOSE i \in 1..Len(Ascii) : Ascii[i] = c

\* Ord::cmp on two integers
cmp(x, y) == IF x < y THEN "Less" ELSE IF x > y THEN "Greater" ELSE "Equal"

\* char::to_digit(10), char::is_whitespace
is_digit(c) == c \in {"0","1","2","3","4","5","6","7","8","9"}
to_digit(c) == char_code(c) - char_code("0")
is_whitespace(c) == c = " "

\* the digit at position i of s, if there is one there
has_digit(s, i) == i <= Len(s) /\ is_digit(s[i])

\* natord::compare, as natural_compare calls it: characters are compared one
\* by one, white space is skipped, and two runs of digits that meet are
\* compared as numbers: left-aligned when one starts with 0, else the longer
\* run is the greater and runs of one length are decided by their first
\* difference
RECURSIVE skip(_, _)
skip(s, i) == IF i <= Len(s) /\ is_whitespace(s[i]) THEN skip(s, i + 1) ELSE i

RECURSIVE natord_nondigits(_, _, _, _), natord_digits_left(_, _, _, _),
          natord_digits_right(_, _, _, _, _)
natord_nondigits(a, b, i0, j0) ==
    LET i == skip(a, i0)
        j == skip(b, j0)
    IN  IF i > Len(a) THEN (IF j > Len(b) THEN "Equal" ELSE "Less")
        ELSE IF j > Len(b) THEN "Greater"
        ELSE IF is_digit(a[i]) /\ is_digit(b[j])
             THEN IF to_digit(a[i]) = 0 \/ to_digit(b[j]) = 0
                  THEN IF a[i] # b[j] THEN cmp(to_digit(a[i]), to_digit(b[j]))
                       ELSE natord_digits_left(a, b, i + 1, j + 1)
                  ELSE natord_digits_right(a, b, i + 1, j + 1,
                                           cmp(to_digit(a[i]), to_digit(b[j])))
        ELSE IF a[i] # b[j] THEN cmp(char_code(a[i]), char_code(b[j]))
        ELSE natord_nondigits(a, b, i + 1, j + 1)
natord_digits_left(a, b, i, j) ==
    IF has_digit(a, i) /\ has_digit(b, j)
    THEN IF a[i] # b[j] THEN cmp(to_digit(a[i]), to_digit(b[j]))
         ELSE natord_digits_left(a, b, i + 1, j + 1)
    ELSE IF has_digit(a, i) THEN "Greater"
    ELSE IF has_digit(b, j) THEN "Less"
    ELSE natord_nondigits(a, b, i, j)
natord_digits_right(a, b, i, j, lastcmp) ==
    IF has_digit(a, i) /\ has_digit(b, j)
    THEN natord_digits_right(a, b, i + 1, j + 1,
             IF lastcmp = "Equal" THEN cmp(to_digit(a[i]), to_digit(b[j])) ELSE lastcmp)
    ELSE IF has_digit(a, i) THEN "Greater"
    ELSE IF has_digit(b, j) THEN "Less"
    ELSE IF lastcmp # "Equal" THEN lastcmp
    ELSE natord_nondigits(a, b, i, j)

\* natural_compare (sorting.rs)
natural_compare(a, b) == natord_nondigits(a, b, 1, 1)

\* Path::cmp on two files of one folder: the names, byte by byte
RECURSIVE bytes_cmp(_, _, _)
bytes_cmp(a, b, i) ==
    IF i > Len(a) THEN (IF i > Len(b) THEN "Equal" ELSE "Less")
    ELSE IF i > Len(b) THEN "Greater"
    ELSE IF a[i] # b[i] THEN cmp(char_code(a[i]), char_code(b[i]))
    ELSE bytes_cmp(a, b, i + 1)
path_cmp(a, b) == bytes_cmp(a, b, 1)

\* x put into the sorted list l behind everything that is not greater (the
\* sorts of the standard library are stable)
RECURSIVE insert_natural(_, _), insert_by_path(_, _)
insert_natural(l, x) ==
    IF l = <<>> THEN <<x>>
    ELSE IF natural_compare(x, Head(l)) = "Less" THEN <<x>> \o l
    ELSE <<Head(l)>> \o insert_natural(Tail(l), x)
insert_by_path(l, x) ==
    IF l = <<>> THEN <<x>>
    ELSE IF path_cmp(x.file_path, Head(l).file_path) = "Less" THEN <<x>> \o l
    ELSE <<Head(l)>> \o insert_by_path(Tail(l), x)

\* natural_sort (sorting.rs): paths.sort_by(natural_compare)
RECURSIVE natural_sort(_)
natural_sort(paths) ==
    IF paths = <<>> THEN <<>>
    ELSE insert_natural(natural_sort(SubSeq(paths, 1, Len(paths) - 1)), paths[Len(paths)])

\* analyzer.rs:71: tracks.sort_by(|a, b| a.file_path.cmp(&b.file_path))
RECURSIVE sort_by_file_path(_)
sort_by_file_path(ts) ==
    IF ts = <<>> THEN <<>>
    ELSE insert_by_path(sort_by_file_path(SubSeq(ts, 1, Len(ts) - 1)), ts[Len(ts)])

\* the orders in which the members of a set, or of a list, may come
Orders(S) == {l \in [1..Cardinality(S) -> S] : \A i, j \in 1..Cardinality(S) : l[i] = l[j] => i = j}
Shuffles(l) == {[i \in 1..Len(l) |-> l[o[i]]] : o \in Orders(1..Len(l))}

\* audio file names of a book folder
FileNames ==
    {<<"C","h","a","p","t","e","r","_","1",".","m","p","3">>,
     <<"C","h","a","p","t","e","r","_","2",".","m","p","3">>,
     <<"C","h","a","p","t","e","r","_","1","0",".","m","p","3">>,
     <<"C","h","a","p","t","e","r","_","2","0",".","m","p","3">>,
     <<"C","h","a","p","t","e","r","_","0","2",".","m","p","3">>,
     <<"I","n","t","r","o",".","m","p","3">>}

\* BookFolder::new
BookFolder_new == [mp3_files |-> <<>>, m4b_files |-> <<>>, case |-> "D", tracks |-> <<>>]

InitOrder ==
    /\ order_pc = "scan"
    /\ dir_files \in {S \in SUBSET FileNames : Cardinality(S) \in 1..MaxDirFiles}
    /\ book_folder = BookFolder_new
    /\ tool_inputs = <<>>
    /\ ClassifyIdle /\ DelayIdle /\ RetryIdle /\ BatchIdle /\ BookIdle /\ CopyIdle /\ CaseIdle /\ ScanIdle
    /\ ShelfIdle

order_others == <<classify_vars, delay_vars, retry_vars, batch_vars, shelf_vars, book_vars, copy_vars,
                  case_vars, scan_vars>>

\* Scanner::scan_folder: the audio files are pushed in the order read_dir
\* yields them, the folder is classified, and mp3_files is sorted naturally
ScanFolder ==
    /\ order_pc = "scan"
    /\ \E read_dir \in Orders(dir_files) :
          LET case == classify(read_dir, <<>>)
          IN  /\ case \in {"A", "B", "C"}
              /\ book_folder' = [book_folder EXCEPT !.mp3_files = natural_sort(read_dir), !.case = case]
    /\ order_pc' = "analyze"
    /\ UNCHANGED <<dir_files, tool_inputs, order_others>>

\* Analyzer::analyze_book_folder: the files are probed concurrently
\* (buffer_unordered yields the tracks as their probes complete), then the
\* tracks are sorted by file_path
AnalyzeBookFolder ==
    /\ order_pc = "analyze"
    /\ \E completed \in Shuffles(book_folder.mp3_files) :
          LET probed == [i \in 1..Len(completed) |->
                            Track_new(completed[i],
                                      unwrap(QualityProfile_new(128, 44100, 2, Codec_mp3, 3600)))]
          IN  book_folder' = [book_folder EXCEPT !.tracks = sort_by_file_path(probed)]
    /\ order_pc' = "process"
    /\ UNCHANGED <<dir_files, tool_inputs, order_others>>

\* process_book, lines 117-121, 151, 219-223: the concat list, and the tasks of
\* the parallel branch, follow book_folder.tracks
ListTracks ==
    /\ order_pc = "process"
    /\ tool_inputs' = [i \in 1..Len(book_folder.tracks) |-> book_folder.tracks[i].file_path]
    /\ order_pc' = "done"
    /\ UNCHANGED <<dir_files, book_folder, order_others>>

NextOrder == ScanFolder \/ AnalyzeBookFolder \/ ListTracks

SpecOrder == InitOrder /\ [][NextOrder]_vars

(***************************************************************************)
(* core/scanner.rs: Scanner::scan_directory on one directory tree.  A       *)
(* directory is the path of names that leads to it from root.              *)
(***************************************************************************)
\* directory names: hidden, plain, and with a dot that is not the first character
Name_hidden == <<".","h","i","d","d","e","n">>
Name_Book == <<"B","o","o","k">>
Name_Vol_1 == <<"V","o","l",".","1">>
DirNames == {Name_hidden, Name_Book, Name_Vol_1}

\* the trees of at most n directories, grown one directory at a time: in root,
\* or in a directory of the tree
RECURSIVE Trees(_)
Trees(n) ==
    IF n = 0 THEN {{}}
    ELSE Trees(n - 1)
            \cup UNION {{t \cup {Append(d, name)} : d \in t \cup {<<>>}, name \in DirNames} :
                           t \in {x \in Trees(n - 1) : Cardinality(x) = n - 1}}

\* the directories of the tree that are directly in d (<<>> is root)
children(t, d) == {c \in t : Len(c) = Len(d) + 1 /\ SubSeq(c, 1, Len(d)) = d}

\* Scanner::is_hidden: the last component of the path starts with a dot
is_hidden(path) == path[Len(path)][1] = "."

\* WalkDir: a directory whose entries have all been yielded is closed
RECURSIVE settle(_)
settle(stack) ==
    IF stack # <<>> /\ stack[Len(stack)] = {}
    THEN settle(SubSeq(stack, 1, Len(stack) - 1))
    ELSE stack

InitScan ==
    /\ scan_pc = "walk"
    /\ tree \in Trees(MaxDirs)
    /\ audio_dirs \in SUBSET tree
    /\ walk_stack = settle(<<children(tree, <<>>)>>)
    /\ book_folders = <<>>
    /\ ClassifyIdle /\ DelayIdle /\ RetryIdle /\ BatchIdle /\ BookIdle /\ CopyIdle /\ CaseIdle
    /\ ShelfIdle
    /\ OrderIdle

scan_others == <<classify_vars, delay_vars, retry_vars, batch_vars, shelf_vars, book_vars, copy_vars,
                 case_vars, order_vars>>

\* scan_directory, lines 60-78, one turn of the loop: WalkDir (min_depth 1,
\* max_depth 2, directories only) yields the next directory, in depth-first
\* order, and will go into it when it is less than 2 levels below root; the
\* loop body passes over a hidden directory, and keeps the others when
\* scan_folder finds them to be an audiobook (Case A, B or C)
ScanEntry ==
    /\ scan_pc = "walk" /\ walk_stack # <<>>
    /\ \E path \in walk_stack[Len(walk_stack)] :
          LET rest == [walk_stack EXCEPT ![Len(walk_stack)] = @ \ {path}]
              opened == IF Len(path) < 2 THEN Append(rest, children(tree, path)) ELSE rest
              mp3_files == IF path \in audio_dirs THEN <<"01.mp3">> ELSE <<>>
          IN  /\ walk_stack' = settle(opened)
              /\ book_folders' =
                    IF is_hidden(path) THEN book_folders
                    ELSE IF classify(mp3_files, <<>>) \in {"A", "B", "C"}
                         THEN Append(book_folders, path)
                         ELSE book_folders
    /\ UNCHANGED <<scan_pc, tree, audio_dirs, scan_others>>

\* scan_directory, line 80: the walk is over
ScanReturn ==
    /\ scan_pc = "walk" /\ walk_stack = <<>>
    /\ scan_pc' = "done"
    /\ UNCHANGED <<tree, audio_dirs, walk_stack, book_folders, scan_others>>

NextScan == ScanEntry \/ ScanReturn

SpecScan == InitScan /\ [][NextScan]_vars

(***************************************************************************)
(* core/organizer.rs.  A path is the sequence of names that leads to it     *)
(* from the organizer's root; the file system is the set of the directories *)
(* that exist below root.                                                  *)
(***************************************************************************)
Name_To_Convert == <<"T","o","_","C","o","n","v","e","r","t">>
Name_M4B == <<"M","4","B">>
Name_Author == <<"A","u","t","h","o","r">>
Root_display == <<"/","l","i","b","r","a","r","y">>
Pre_failed_to_create_folder == <<"F","a","i","l","e","d"," ","t","o"," ","c","r","e","a","t","e"," ","f","o","l","d","e","r",":"," ">>
Pre_failed_to_move == <<"F","a","i","l","e","d"," ","t","o"," ","m","o","v","e"," ">>
Infix_to == <<" ","t","o"," ">>
Pre_could_not_resolve == <<"C","o","u","l","d"," ","n","o","t"," ","r","e","s","o","l","v","e"," ","n","a","m","i","n","g"," ","c","o","n","f","l","i","c","t"," ","f","o","r"," ">>

\* the last suffix resolve_naming_conflict tries
LastSuffix == 999

\* Path::parent, Path::file_name, Path::join, Path::exists, Path::display
parent(path) == SubSeq(path, 1, Len(path) - 1)
file_name(path) == path[Len(path)]
join(path, name) == Append(path, name)
exists(fs, path) == path = <<>> \/ path \in fs
RECURSIVE display(_)
display(path) ==
    IF path = <<>> THEN Root_display
    ELSE display(parent(path)) \o <<"/">> \o file_name(path)

\* Path::starts_with
starts_with(path, base) ==
    Len(base) <= Len(path) /\ SubSeq(path, 1, Len(base)) = base

\* std::fs::create_dir_all, when the system allows it
create_dir_all(fs, path) == fs \cup {SubSeq(path, 1, n) : n \in 1..Len(path)}

\* std::fs::rename of a directory: it is refused when the source is missing,
\* when the destination lies inside the source, or when the destination's
\* parent is missing; otherwise the directory moves with all it holds
rename_refused(fs, from, to) ==
    \/ ~exists(fs, from)
    \/ starts_with(to, from)
    \/ ~exists(fs, parent(to))
rename(fs, from, to) ==
    {IF starts_with(p, from) THEN to \o SubSeq(p, Len(from) + 1, Len(p)) ELSE p : p \in fs}

\* format!("{}_{}", base_name, i) joined to the parent of path
suffixed(path, i) == join(parent(path), file_name(path) \o <<"_">> \o usize_to_string(i))

\* the loop `for i in lo..=hi` of resolve_naming_conflict, run as its first
\* half and then its second half: the first i whose name is free, or 0 when
\* the loop ends without a return
RECURSIVE first_free(_, _, _, _)
first_free(fs, path, lo, hi) ==
    IF lo > hi THEN 0
    ELSE IF lo = hi THEN (IF ~exists(fs, suffixed(path, lo)) THEN lo ELSE 0)
    ELSE LET mid == (lo + hi) \div 2
             i == first_free(fs, path, lo, mid)
         IN  IF i # 0 THEN i ELSE first_free(fs, path, mid + 1, hi)

\* faulty variant: the loop is `for i in 2..999`, which leaves _999 out
resolve_naming_conflict_without_last(fs, path) ==
    IF ~exists(fs, path) THEN OkOf(path)
    ELSE LET i == first_free(fs, path, 2, LastSuffix - 1)
         IN  IF i # 0 THEN OkOf(suffixed(path, i))
             ELSE Err(anyhow(Pre_could_not_resolve \o display(path)))

\* Organizer::resolve_naming_conflict
resolve_naming_conflict(fs, path) ==
    IF ~exists(fs, path) THEN OkOf(path)
    ELSE LET i == first_free(fs, path, 2, LastSuffix)
         IN  IF i # 0 THEN OkOf(suffixed(path, i))
             ELSE Err(anyhow(Pre_could_not_resolve \o display(path)))

\* Organizer::with_dry_run, with the folder names of the default Config
Organizer_with_dry_run(dry_run) ==
    [m4b_folder |-> Name_M4B, convert_folder |-> Name_To_Convert, dry_run |-> dry_run]

\* a BookFolder as the organizer reads it
OrganizedBook(folder_path, case) ==
    [folder_path |-> folder_path, name |-> file_name(folder_path), case |-> case]

OrganizeResult(book, destination_path, action, success, error_message) ==
    [book_name |-> book.name, source_path |-> book.folder_path,
     destination_path |-> destination_path, action |-> action, success |-> success,
     error_message |-> error_message]

\* what the system does with the calls of one organize_book
OsOutcomes == {"ok", "create_dir_all fails", "rename fails"}

\* faulty variant: the two target folders are swapped
target_of_swapped(self, case) ==
    IF case = "A" \/ case = "B"
    THEN [folder_name |-> self.m4b_folder, action |-> "MovedToM4B"]
    ELSE [folder_name |-> self.convert_folder, action |-> "MovedToConvert"]

\* organize_book: the match on book.case, for the cases A, B and C
target_of(self, case) ==
    IF case = "A" \/ case = "B"
    THEN [folder_name |-> self.convert_folder, action |-> "MovedToConvert"]
    ELSE [folder_name |-> self.m4b_folder, action |-> "MovedToM4B"]

\* faulty variant: the dry-run flag is not looked at
execute_move_ignoring_dry_run(self, fs, source_path, target_folder, final_destination, os) ==
    LET created == IF exists(fs, target_folder) THEN fs ELSE create_dir_all(fs, target_folder)
    IN  IF ~exists(fs, target_folder) /\ os = "create_dir_all fails"
        THEN [ret |-> Err(context(io_error, Pre_failed_to_create_folder \o display(target_folder))),
              fs |-> fs]
        ELSE IF os = "rename fails" \/ rename_refused(created, source_path, final_destination)
        THEN [ret |-> Err(context(io_error,
                              Pre_failed_to_move \o display(source_path) \o Infix_to
                                  \o display(final_destination))),
              fs |-> created]
        ELSE [ret |-> Ok, fs |-> rename(created, source_path, final_destination)]

\* organize_book: the move, or its simulation in dry-run mode
execute_move(self, fs, source_path, target_folder, final_destination, os) ==
    LET created == IF exists(fs, target_folder) THEN fs ELSE create_dir_all(fs, target_folder)
    IN  IF self.dry_run THEN [ret |-> Ok, fs |-> fs]
        ELSE IF ~exists(fs, target_folder) /\ os = "create_dir_all fails"
        THEN [ret |-> Err(context(io_error, Pre_failed_to_create_folder \o display(target_folder))),
              fs |-> fs]
        ELSE IF os = "rename fails" \/ rename_refused(created, source_path, final_destination)
        THEN [ret |-> Err(context(io_error,
                              Pre_failed_to_move \o display(source_path) \o Infix_to
                                  \o display(final_destination))),
              fs |-> created]
        ELSE [ret |-> Ok, fs |-> rename(created, source_path, final_destination)]

\* Organizer::organize_book on the file system fs: the Result it returns and
\* the file system it leaves
organize_book(self, book, fs, os) ==
    LET source_path == book.folder_path
        target == target_of(self, book.case)
        target_folder == <<target.folder_name>>
        destination_path == join(target_folder, file_name(source_path))
        resolved == resolve_naming_conflict(fs, destination_path)
        final_destination == unwrap(resolved)
        moved == execute_move(self, fs, source_path, target_folder, final_destination, os)
    IN  IF book.case = "D"
        THEN [ret |-> OkOf(OrganizeResult(book, None, "SkippedInvalid", TRUE, None)), fs |-> fs]
        ELSE IF parent(source_path) = target_folder
        THEN [ret |-> OkOf(OrganizeResult(book, None, "Skipped", TRUE, None)), fs |-> fs]
        ELSE IF resolved.tag = "Err"
        THEN [ret |-> resolved, fs |-> fs]
        ELSE IF moved.ret.tag = "Err"
        THEN moved
        ELSE [ret |-> OkOf(OrganizeResult(book, Some(final_destination), target.action,
                                          TRUE, None)),
              fs |-> moved.fs]

(***************************************************************************)
(* SpecResolve: resolve_naming_conflict applied to one path                *)
(***************************************************************************)
\* the i-th name resolve_naming_conflict considers for path: the name itself,
\* then the name with the suffixes _2, _3, ...
candidate(path, i) == IF i = 1 THEN path ELSE suffixed(path, i)

\* file systems in which the first names are taken or free one by one, and
\* crowded ones: every name up to _999 taken, every name but the last, and
\* every name but one in the middle
ResolveInputs(path) ==
    {{candidate(path, i) : i \in S} : S \in SUBSET (1..(MaxTaken + 2))}
        \cup {{candidate(path, i) : i \in (1..LastSuffix) \ H} :
                  H \in {{}, {LastSuffix}, {LastSuffix - 1, LastSuffix}}}

InitResolve ==
    /\ res_pc = "input"
    /\ res_path \in {<<d, n>> : d \in {Name_To_Convert, Name_M4B}, n \in {Name_Book, Name_Vol_1}}
    /\ \E taken \in ResolveInputs(res_path), others \in SUBSET {<<Name_Author>>} :
          res_fs = taken \cup others \cup {parent(res_path)}
    /\ res_ret = None
    /\ ClassifyIdle /\ DelayIdle /\ RetryIdle /\ BatchIdle /\ LibraryIdle
    /\ OrganizeIdle /\ QualityIdle /\ ClampIdle /\ StudioIdle

ResolveNamingConflict ==
    /\ res_pc = "input"
    /\ res_ret' = resolve_naming_conflict(res_fs, res_path)
    /\ res_pc' = "done"
    /\ UNCHANGED <<res_fs, res_path, classify_vars, delay_vars, retry_vars, batch_vars,
                   library_vars, organize_vars, quality_vars, clamp_vars,
                    studio_vars>>

NextResolve == ResolveNamingConflict

SpecResolve == InitResolve /\ [][NextResolve]_vars

(***************************************************************************)
(* SpecOrganize: organize_batch on a list of books                         *)
(***************************************************************************)
\* where the scanner found the books: in root, below an author's folder that
\* may be a book itself, and in the two target folders
BookPaths ==
    {<<Name_Book>>, <<Name_Author>>, <<Name_Author, Name_Book>>,
     <<Name_To_Convert, Name_Book>>, <<Name_M4B, Name_Book>>}

RECURSIVE BookLists(_)
BookLists(n) ==
    IF n = 0 THEN {<<>>}
    ELSE BookLists(n - 1)
            \cup {Append(l, OrganizedBook(p, c)) :
                      l \in {k \in BookLists(n - 1) : Len(k) = n - 1},
                      p \in BookPaths, c \in BookCase}

\* no folder is listed twice
distinct_folders(l) ==
    \A i, j \in 1..Len(l) : l[i].folder_path = l[j].folder_path => i = j

\* directories left in the target folders by earlier runs: the first k of the
\* names Book, Book_2, ...
Leftovers(k) ==
    IF k = 0 THEN {}
    ELSE UNION {{<<d>>} \cup {candidate(<<d, Name_Book>>, i) : i \in 1..k} :
                    d \in {Name_To_Convert, Name_M4B}}

InitOrganize ==
    /\ org_self \in {Organizer_with_dry_run(d) : d \in BOOLEAN}
    /\ org_books \in {l \in BookLists(MaxOrgBooks) : distinct_folders(l)}
    /\ \E k \in 0..MaxTaken :
          org_fs = Leftovers(k)
                      \cup UNION {create_dir_all({}, org_books[i].folder_path) :
                                      i \in 1..Len(org_books)}
    /\ org_pc = "loop"
    /\ org_rets = <<>>
    /\ org_results = <<>>
    /\ ClassifyIdle /\ DelayIdle /\ RetryIdle /\ BatchIdle /\ LibraryIdle
    /\ ResolveIdle /\ QualityIdle /\ ClampIdle /\ StudioIdle

organize_others == <<classify_vars, delay_vars, retry_vars, batch_vars, library_vars,
                     resolve_vars, quality_vars, clamp_vars,
                    studio_vars>>

\* faulty variant: the loop ends at the first book that fails
OrganizeNext_until_error ==
    /\ org_pc = "loop"
    /\ Len(org_rets) < Len(org_books)
    /\ \E os \in OsOutcomes :
          LET book == org_books[Len(org_rets) + 1]
              out == organize_book(org_self, book, org_fs, os)
          IN  /\ org_rets' = Append(org_rets, out.ret)
              /\ org_fs' = out.fs
              /\ IF out.ret.tag = "Ok"
                 THEN org_results' = Append(org_results, unwrap(out.ret)) /\ org_pc' = org_pc
                 ELSE org_results' = org_results /\ org_pc' = "returned"
    /\ UNCHANGED <<org_self, org_books, organize_others>>

\* organize_batch: one iteration of `for book in books`
OrganizeNext ==
    /\ org_pc = "loop"
    /\ Len(org_rets) < Len(org_books)
    /\ \E os \in OsOutcomes :
          LET book == org_books[Len(org_rets) + 1]
              out == organize_book(org_self, book, org_fs, os)
          IN  /\ org_rets' = Append(org_rets, out.ret)
              /\ org_fs' = out.fs
              /\ org_results' =
                    Append(org_results,
                           IF out.ret.tag = "Ok" THEN unwrap(out.ret)
                           ELSE OrganizeResult(book, None, "Skipped", FALSE,
                                               Some(to_string(out.ret.err))))
    /\ UNCHANGED <<org_self, org_books, org_pc, organize_others>>

\* organize_batch: the loop is over and results is returned
OrganizeReturn ==
    /\ org_pc = "loop"
    /\ Len(org_rets) = Len(org_books)
    /\ org_pc' = "returned"
    /\ UNCHANGED <<org_self, org_fs, org_books, org_rets, org_results, organize_others>>

NextOrganize == OrganizeNext \/ OrganizeReturn

SpecOrganize == InitOrganize /\ [][NextOrganize]_vars

RECURSIVE organize_batch_from(_, _, _, _)
\* organize_batch from the i-th book on, on a system that refuses no call: the
\* results of `for book in books`
organize_batch_from(self, books_arg, fs, i) ==
    IF i > Len(books_arg) THEN <<>>
    ELSE LET book == books_arg[i]
             out == organize_book(self, book, fs, "ok")
         IN  <<IF out.ret.tag = "Ok" THEN unwrap(out.ret)
               ELSE OrganizeResult(book, None, "Skipped", FALSE,
                                   Some(to_string(out.ret.err)))>>
                 \o organize_batch_from(self, books_arg, out.fs, i + 1)

\* Organizer::organize_batch
organize_batch(self, books_arg, fs) == organize_batch_from(self, books_arg, fs, 1)

(***************************************************************************)
(* SpecQuality: two profiles are constructed; the first is then compared   *)
(* with the second and replaced by profiles derived from it, as in         *)
(* `quality = quality.apply_preset(..)` of process_book.                   *)
(***************************************************************************)
\* arguments of QualityProfile::new: bitrate, sample rate, channels, codec and
\* duration, with values the constructor refuses
NewArgs ==
    {<<b, r, c, k, d>> : b \in {0, 96, 128}, r \in {0, 44100, 48000}, c \in {0, 1, 2, 3},
                         k \in {Codec_aac, Codec_AAC, Codec_mp3, Codec_flac},
                         d \in {1800, 3600}}
OtherArgs ==
    {<<b, 44100, c, k, 3600>> : b \in {96, 128}, c \in {1, 2, 3},
                                k \in {Codec_aac, Codec_mp3, Codec_flac}}

\* the preset argument of apply_preset
Presets ==
    {None} \cup {Some(n) : n \in {Preset_low, Preset_medium, Preset_high, Preset_HIGH,
                                  Preset_source, Preset_ultra}}

NoCall == [fn |-> "none"]

InitQuality ==
    /\ q_pc = "new"
    /\ q_args \in NewArgs
    /\ q_other_args \in OtherArgs
    /\ q_p = None /\ q_q = None
    /\ q_ops = 0
    /\ q_call = NoCall
    /\ ClassifyIdle /\ DelayIdle /\ RetryIdle /\ BatchIdle /\ LibraryIdle
    /\ OrganizeIdle /\ ResolveIdle /\ ClampIdle /\ StudioIdle

quality_others == <<classify_vars, delay_vars, retry_vars, batch_vars, library_vars,
                    organize_vars, resolve_vars, clamp_vars,
                    studio_vars>>

\* QualityProfile::new, for both profiles
New ==
    /\ q_pc = "new"
    /\ LET p == QualityProfile_new(q_args[1], q_args[2], q_args[3], q_args[4], q_args[5])
           q == QualityProfile_new(q_other_args[1], q_other_args[2], q_other_args[3],
                                   q_other_args[4], q_other_args[5])
       IN  /\ q_p' = p
           /\ q_q' = q
           /\ q_pc' = IF p.tag = "Ok" /\ q.tag = "Ok" THEN "built" ELSE "failed"
    /\ UNCHANGED <<q_args, q_other_args, q_ops, q_call, quality_others>>

\* p.is_better_than(&q, s), q.is_better_than(&p, s) and p.is_better_than(&p, s)
IsBetterThan ==
    /\ q_pc = "built"
    /\ \E s \in BOOLEAN :
          q_call' = [fn |-> "is_better_than", prefer_stereo |-> s,
                     forward |-> is_better_than(unwrap(q_p), unwrap(q_q), s),
                     backward |-> is_better_than(unwrap(q_q), unwrap(q_p), s),
                     on_self |-> is_better_than(unwrap(q_p), unwrap(q_p), s)]
    /\ UNCHANGED <<q_pc, q_args, q_other_args, q_p, q_q, q_ops, quality_others>>

\* p.is_compatible_for_concat(&q) and q.is_compatible_for_concat(&p)
IsCompatibleForConcat ==
    /\ q_pc = "built"
    /\ q_call' = [fn |-> "is_compatible_for_concat",
                  forward |-> is_compatible_for_concat(unwrap(q_p), unwrap(q_q)),
                  backward |-> is_compatible_for_concat(unwrap(q_q), unwrap(q_p))]
    /\ UNCHANGED <<q_pc, q_args, q_other_args, q_p, q_q, q_ops, quality_others>>

\* p = p.apply_preset(preset)
ApplyPreset ==
    /\ q_pc = "built"
    /\ q_ops < MaxDerived
    /\ \E preset \in Presets :
          LET ret == apply_preset(unwrap(q_p), preset)
          IN  /\ q_call' = [fn |-> "apply_preset", self |-> unwrap(q_p), preset |-> preset,
                            ret |-> ret]
              /\ q_p' = OkOf(ret)
    /\ q_ops' = q_ops + 1
    /\ UNCHANGED <<q_pc, q_args, q_other_args, q_q, quality_others>>

\* p = p.to_aac_equivalent()
ToAacEquivalent ==
    /\ q_pc = "built"
    /\ q_ops < MaxDerived
    /\ LET ret == to_aac_equivalent(unwrap(q_p))
       IN  /\ q_call' = [fn |-> "to_aac_equivalent", self |-> unwrap(q_p), ret |-> ret]
           /\ q_p' = OkOf(ret)
    /\ q_ops' = q_ops + 1
    /\ UNCHANGED <<q_pc, q_args, q_other_args, q_q, quality_others>>

NextQuality == New \/ IsBetterThan \/ IsCompatibleForConcat \/ ApplyPreset \/ ToAacEquivalent

SpecQuality == InitQuality /\ [][NextQuality]_vars

(***************************************************************************)
(* SpecClamp: a BatchProcessor and a Processor are constructed from        *)
(* arbitrary counts, and each creates its Semaphore.                       *)
(***************************************************************************)
\* counts handed to the constructors: zero, the ends of both clamp ranges,
\* their neighbours, and a large one
CountArgs == {0, 1, 2, 16, 17, 32, 33, 1000}

\* Processor::new
Processor_new ==
    [keep_temp |-> FALSE, enable_parallel_encoding |-> TRUE, max_concurrent_files |-> 8]

InitClamp ==
    /\ cl_pc = "new"
    /\ cl_args \in [workers : CountArgs, max_concurrent_encodes : CountArgs,
                    max_concurrent_files : CountArgs]
    /\ cl_batch = <<>>
    /\ cl_processor = <<>>
    /\ cl_pools = <<>>
    /\ ClassifyIdle /\ DelayIdle /\ RetryIdle /\ BatchIdle /\ LibraryIdle
    /\ OrganizeIdle /\ ResolveIdle /\ QualityIdle /\ StudioIdle

clamp_others == <<classify_vars, delay_vars, retry_vars, batch_vars, library_vars,
                  organize_vars, resolve_vars, quality_vars, studio_vars>>

\* BatchProcessor::new(workers)
NewBatchProcessor ==
    /\ cl_pc = "new"
    /\ cl_batch' = BatchProcessor_new(cl_args.workers)
    /\ cl_pc' = "batch"
    /\ UNCHANGED <<cl_args, cl_processor, cl_pools, clamp_others>>

\* BatchProcessor::with_options(workers, .., max_concurrent_encodes, retry_config)
BatchProcessorWithOptions ==
    /\ cl_pc = "new"
    /\ cl_batch' = BatchProcessor_with_options(cl_args.workers, cl_args.max_concurrent_encodes,
                                               RetryConfig_new)
    /\ cl_pc' = "batch"
    /\ UNCHANGED <<cl_args, cl_processor, cl_pools, clamp_others>>

\* process_batch: Semaphore::new(self.max_concurrent_encodes)
CreateEncodePool ==
    /\ cl_pc = "batch"
    /\ cl_pools' = Append(cl_pools, cl_batch.max_concurrent_encodes)
    /\ cl_pc' = "encode_pool"
    /\ UNCHANGED <<cl_args, cl_batch, cl_processor, clamp_others>>

\* Processor::new()
NewProcessor ==
    /\ cl_pc = "encode_pool"
    /\ cl_processor' = Processor_new
    /\ cl_pc' = "processor"
    /\ UNCHANGED <<cl_args, cl_batch, cl_pools, clamp_others>>

\* Processor::with_options(.., max_concurrent_files, ..)
ProcessorWithOptions ==
    /\ cl_pc = "encode_pool"
    /\ \E k \in BOOLEAN, p \in BOOLEAN :
          cl_processor' = Processor_with_options(k, p, cl_args.max_concurrent_files)
    /\ cl_pc' = "processor"
    /\ UNCHANGED <<cl_args, cl_batch, cl_pools, clamp_others>>

\* process_book, parallel branch, on a book of n > 1 tracks:
\* Semaphore::new(self.max_concurrent_files.min(book_folder.tracks.len()))
CreateFilePool ==
    /\ cl_pc = "processor"
    /\ cl_processor.enable_parallel_encoding
    /\ \E n \in 2..MaxTracks :
          cl_pools' = Append(cl_pools, min(cl_processor.max_concurrent_files, n))
    /\ cl_pc' = "file_pool"
    /\ UNCHANGED <<cl_args, cl_batch, cl_processor, clamp_others>>

NextClamp ==
    \/ NewBatchProcessor \/ BatchProcessorWithOptions \/ CreateEncodePool
    \/ NewProcessor \/ ProcessorWithOptions \/ CreateFilePool

SpecClamp == InitClamp /\ [][NextClamp]_vars

(***************************************************************************)
(* models/book.rs: BookFolder::get_best_quality_profile                    *)
(***************************************************************************)
RECURSIVE best_from(_, _, _, _)
\* the loop `for track in &self.tracks[1..]`, from the track at index k (1-based)
best_from(tracks_arg, k, best, prefer_stereo) ==
    IF k > Len(tracks_arg) THEN best
    ELSE best_from(tracks_arg, k + 1,
                   IF is_better_than(tracks_arg[k].quality, best, prefer_stereo)
                   THEN tracks_arg[k].quality ELSE best,
                   prefer_stereo)

\* faulty variant: a track that is as good as the best one so far replaces it
get_best_quality_profile_last_wins(tracks_arg, prefer_stereo) ==
    IF tracks_arg = <<>> THEN None
    ELSE LET pick[k \in 1..Len(tracks_arg)] ==
                 IF k = 1 THEN tracks_arg[1].quality
                 ELSE IF ~is_better_than(pick[k - 1], tracks_arg[k].quality, prefer_stereo)
                      THEN tracks_arg[k].quality ELSE pick[k - 1]
         IN  Some(pick[Len(tracks_arg)])

\* BookFolder::get_best_quality_profile
get_best_quality_profile(tracks_arg, prefer_stereo) ==
    IF tracks_arg = <<>> THEN None
    ELSE Some(best_from(tracks_arg, 2, tracks_arg[1].quality, prefer_stereo))

(***************************************************************************)
(* SpecBest: process_book, from the quality profile to the choice of the   *)
(* branch (processor.rs lines 90-102), without a quality preset            *)
(***************************************************************************)
MaxBestTracks == 3

\* the profiles of the tracks: two that differ in the letter case of the codec and
\* in the duration only, and some that differ in one compared field
BestProfiles ==
    {unwrap(QualityProfile_new(a[1], a[2], a[3], a[4], a[5])) :
        a \in {<<128, 44100, 2, Codec_aac, 3600>>, <<128, 44100, 2, Codec_AAC, 1800>>,
               <<128, 44100, 1, Codec_aac, 3600>>, <<128, 44100, 2, Codec_mp3, 3600>>,
               <<96, 48000, 2, Codec_aac, 3600>>}}

BestTrackLists ==
    UNION {[1..n -> BestProfiles] : n \in 0..MaxBestTracks}

InitBest ==
    /\ bq_pc = "start"
    /\ \E qs \in BestTrackLists :
          bq_tracks = [i \in 1..Len(qs) |-> Track_new(track_path(i), qs[i])]
    /\ bq_quality = None
    /\ bq_ret = None
    /\ ClassifyIdle /\ DelayIdle /\ RetryIdle /\ BatchIdle /\ LibraryIdle
    /\ OrganizeIdle /\ ResolveIdle /\ QualityIdle /\ ClampIdle
    /\ ChapterIdle /\ UnitIdle /\ PairIdle

best_others == <<classify_vars, delay_vars, retry_vars, batch_vars, library_vars,
                 organize_vars, resolve_vars, quality_vars, clamp_vars,
                 chapter_vars, unit_vars, pair_vars>>

\* processor.rs lines 90-94: get_best_quality_profile(true).context("No tracks found")?
BestQuality ==
    /\ bq_pc = "start"
    /\ bq_quality' = get_best_quality_profile(bq_tracks, TRUE)
    /\ IF bq_quality'.tag = "None"
       THEN bq_ret' = Err(anyhow(Ctx_no_tracks)) /\ bq_pc' = "returned"
       ELSE bq_ret' = bq_ret /\ bq_pc' = "strategy"
    /\ UNCHANGED <<bq_tracks, best_others>>

\* lines 102, 114, 134, 216: the branch is entered
EnterStrategy ==
    /\ bq_pc = "strategy"
    /\ bq_pc' = strategy(Len(bq_tracks), can_use_concat_copy(bq_tracks), TRUE)
    /\ UNCHANGED <<bq_tracks, bq_quality, bq_ret, best_others>>

NextBest == BestQuality \/ EnterStrategy

SpecBest == InitBest /\ [][NextBest]_vars

(***************************************************************************)
(* audio/chapters.rs: generate_chapters_from_files, and                    *)
(* Processor::generate_chapters. A duration (f64 seconds) is written in    *)
(* ten-thousandths of a second: 12345 stands for 1.2345 s.                 *)
(***************************************************************************)
\* Chapter::new
Chapter_new(number, title, start_time_ms, end_time_ms) ==
    [number |-> number, title |-> title,
     start_time_ms |-> start_time_ms, end_time_ms |-> end_time_ms]

\* Path::file_stem of a file name: the part before its last '.', the whole name
\* when it has none or only a leading one
file_stem(name) ==
    LET dots == {i \in 2..Len(name) : name[i] = "."}
    IN  IF dots = {} THEN name
        ELSE SubSeq(name, 1, (CHOOSE i \in dots : \A j \in dots : j <= i) - 1)

\* faulty variant: the milliseconds are rounded to the nearest one
duration_ms_rounded(duration_secs) == (duration_secs + 5) \div 10

\* chapters.rs line 66, (duration_secs * 1000.0) as u64: the cast drops the
\* fraction of a millisecond
duration_ms(duration_secs) == duration_secs \div 10

RECURSIVE chapters_from(_, _, _, _)
\* the loop of generate_chapters_from_files from index i (0-based) on, with
\* current_time_ms as it stands
chapters_from(files, durations, i, current_time_ms) ==
    IF i >= Len(files) \/ i >= Len(durations) THEN <<>>
    ELSE LET ms == duration_ms(durations[i + 1])
             title == file_stem(files[i + 1])
         IN  <<Chapter_new(i + 1, title, current_time_ms, current_time_ms + ms)>>
                 \o chapters_from(files, durations, i + 1, current_time_ms + ms)

\* generate_chapters_from_files
generate_chapters_from_files(files, durations) == chapters_from(files, durations, 0, 0)

\* Processor::generate_chapters for a book without a CUE file
generate_chapters(tracks_arg, chapter_source_arg) ==
    IF chapter_source_arg = "cue" \/ chapter_source_arg = "none" THEN <<>>
    ELSE \* "files" | "auto", and any other value through the call with "auto"
         IF Len(tracks_arg) > 1
         THEN generate_chapters_from_files(
                  [i \in 1..Len(tracks_arg) |-> tracks_arg[i].file_path],
                  [i \in 1..Len(tracks_arg) |-> tracks_arg[i].quality.duration])
         ELSE <<>>

(***************************************************************************)
(* SpecChapters: one call of Processor::generate_chapters                  *)
(***************************************************************************)
MaxChapterTracks == 3

\* 0 s, 0.0009 s, 1.2345 s and 120.5 s
ChapterDurations == {0, 9, 12345, 1205000}

ChapterSources == {"cue", "files", "auto", "none", "other"}

InitChapters ==
    /\ ch_pc = "start"
    /\ \E ds \in UNION {[1..n -> ChapterDurations] : n \in 0..MaxChapterTracks} :
          ch_tracks = [i \in 1..Len(ds) |->
                          Track_new(track_path(i),
                                    unwrap(QualityProfile_new(128, 44100, 2, Codec_mp3, ds[i])))]
    /\ ch_source \in ChapterSources
    /\ ch_chapters = <<>>
    /\ ClassifyIdle /\ DelayIdle /\ RetryIdle /\ BatchIdle /\ LibraryIdle
    /\ OrganizeIdle /\ ResolveIdle /\ QualityIdle /\ ClampIdle
    /\ BestIdle /\ UnitIdle /\ PairIdle

chapter_others == <<classify_vars, delay_vars, retry_vars, batch_vars, library_vars,
                    organize_vars, resolve_vars, quality_vars, clamp_vars,
                    best_vars, unit_vars, pair_vars>>

\* processor.rs line 241: self.generate_chapters(book_folder, chapter_source)
GenerateChapters ==
    /\ ch_pc = "start"
    /\ ch_chapters' = generate_chapters(ch_tracks, ch_source)
    /\ ch_pc' = "returned"
    /\ UNCHANGED <<ch_tracks, ch_source, chapter_others>>

NextChapters == GenerateChapters

SpecChapters == InitChapters /\ [][NextChapters]_vars

(***************************************************************************)
(* SpecPair: the paths process_book takes for two books of one batch       *)
(* (processor.rs lines 72-78 and 285-289, create_temp_dir lines 357-369)   *)
(***************************************************************************)
Name_Bo_ok == <<"B","o",":","o","k">>
Name_tmp == <<"t","m","p">>
Name_out == <<"o","u","t">>
Pre_audiobook_forge == <<"a","u","d","i","o","b","o","o","k","-","f","o","r","g","e","-">>
Ext_m4b == <<".","m","4","b">>

\* BookFolder::new, its fields folder_path and name: the name is the last
\* component of the folder's path
BookFolder_named(folder_path) == [folder_path |-> folder_path, name |-> file_name(folder_path)]

\* BookFolder::get_output_filename
get_output_filename(book) == book.name \o Ext_m4b

\* sanitize_filename::sanitize (a crate outside this repository) with its default
\* options: the characters that are illegal in a file name are dropped
sanitize(name) ==
    SelectSeq(name, LAMBDA c : c \notin {"/", "?", "<", ">", "\\", ":", "*", "|", "\""})

\* create_temp_dir, lines 358-360: the path of the directory
temp_dir_of(temp_base, book_name) ==
    join(temp_base, Pre_audiobook_forge \o sanitize(book_name))

\* the folders of the two books: two folders of one name under different parents
\* among them, and two whose names differ in an illegal character only
PairPaths ==
    {<<Name_Book>>, <<Name_Author, Name_Book>>, <<Name_Vol_1>>, <<Name_Author, Name_Vol_1>>,
     <<Name_Bo_ok>>}

InitPair ==
    /\ \E p1, p2 \in PairPaths :
          /\ p1 # p2
          /\ pr_books = <<BookFolder_named(p1), BookFolder_named(p2)>>
    /\ pr_pc = <<"start", "start">>
    /\ pr_output_path = <<None, None>>
    /\ pr_temp_dir = <<None, None>>
    /\ pr_fs = {}
    /\ ClassifyIdle /\ DelayIdle /\ RetryIdle /\ BatchIdle /\ LibraryIdle
    /\ OrganizeIdle /\ ResolveIdle /\ QualityIdle /\ ClampIdle
    /\ BestIdle /\ ChapterIdle /\ UnitIdle

pair_others == <<classify_vars, delay_vars, retry_vars, batch_vars, library_vars,
                 organize_vars, resolve_vars, quality_vars, clamp_vars,
                 best_vars, chapter_vars, unit_vars>>

\* lines 72-75: output_path = output_dir.join(book_folder.get_output_filename())
NameOutput(i) ==
    /\ pr_pc[i] = "start"
    /\ pr_output_path' = [pr_output_path EXCEPT
                             ![i] = Some(join(<<Name_out>>, get_output_filename(pr_books[i])))]
    /\ pr_pc' = [pr_pc EXCEPT ![i] = "named"]
    /\ UNCHANGED <<pr_books, pr_temp_dir, pr_fs, pair_others>>

\* line 78, create_temp_dir: a directory found at the path is removed with what
\* it holds, whoever made it, and the directory is made anew
CreateTempDirOf(i) ==
    /\ pr_pc[i] = "named"
    /\ LET temp_dir == temp_dir_of(<<Name_tmp>>, pr_books[i].name)
       IN  /\ pr_temp_dir' = [pr_temp_dir EXCEPT ![i] = Some(temp_dir)]
           /\ pr_fs' = {e \in pr_fs : e.path # temp_dir}
                          \cup {[path |-> temp_dir, made_by |-> i]}
    /\ pr_pc' = [pr_pc EXCEPT ![i] = "prepared"]
    /\ UNCHANGED <<pr_books, pr_output_path, pair_others>>

\* lines 285-289: the book is done and its temp_dir is removed
CleanupOf(i) ==
    /\ pr_pc[i] = "prepared"
    /\ pr_fs' = {e \in pr_fs : e.path # unwrap(pr_temp_dir[i])}
    /\ pr_pc' = [pr_pc EXCEPT ![i] = "done"]
    /\ UNCHANGED <<pr_books, pr_output_path, pr_temp_dir, pair_others>>

NextPair == \E i \in 1..2 : NameOutput(i) \/ CreateTempDirOf(i) \/ CleanupOf(i)

SpecPair == InitPair /\ [][NextPair]_vars

(***************************************************************************)
(* SpecUnit: the task process_batch spawns for one book whose process_book *)
(* takes the parallel branch: its permit of encode_semaphore, its          *)
(* smart_retry_async call, and the encoding tasks each process_book        *)
(* invocation spawns. A spawned encoding task is detached when its         *)
(* JoinHandle is dropped: it runs on after process_book has returned.      *)
(***************************************************************************)
MaxUnitRetries == 1
MaxUnitTracks == 2

UnitConfigs ==
    {[retry |-> with_settings(r, 1, 30, 2), max_concurrent_files |-> m, tracks |-> n] :
        r \in 0..MaxUnitRetries, m \in 1..MaxUnitTracks, n \in 2..MaxUnitTracks}

InitUnit ==
    /\ u_config \in {c \in UnitConfigs : strategy(c.tracks, FALSE, TRUE) = "ParallelTranscode"}
    /\ u_pc = "acquire"
    /\ u_permit = FALSE
    /\ u_retry = RetryStart
    /\ u_tasks = <<>>
    /\ u_semaphores = <<>>
    /\ u_awaited = 0
    /\ ClassifyIdle /\ DelayIdle /\ RetryIdle /\ BatchIdle /\ LibraryIdle
    /\ OrganizeIdle /\ ResolveIdle /\ QualityIdle /\ ClampIdle
    /\ BestIdle /\ ChapterIdle /\ PairIdle

unit_others == <<classify_vars, delay_vars, retry_vars, batch_vars, library_vars,
                 organize_vars, resolve_vars, quality_vars, clamp_vars,
                 best_vars, chapter_vars, pair_vars>>

\* the encoding tasks of all process_book invocations so far
UnitTasks == {<<a, i>> : a \in 1..Len(u_tasks), i \in 1..u_config.tracks}

\* the encoding tasks that run convert_single_file
UnitEncoding == {t \in UnitTasks : u_tasks[t[1]][t[2]] = "encoding"}

\* batch.rs line 99: encode_semaphore.acquire().await
UnitAcquire ==
    /\ u_pc = "acquire"
    /\ u_permit' = TRUE
    /\ u_pc' = "retry"
    /\ UNCHANGED <<u_config, u_retry, u_tasks, u_semaphores, u_awaited, unit_others>>

\* batch.rs lines 109-118 and processor.rs lines 136-182: smart_retry_async invokes
\* process_single_book; process_book makes a semaphore of
\* min(max_concurrent_files, tracks.len()) permits and spawns one task per track
UnitInvoke ==
    /\ u_pc = "retry" /\ u_retry.pc = "call"
    /\ u_retry' = RetryInvoke(u_retry)
    /\ u_semaphores' = Append(u_semaphores, min(u_config.max_concurrent_files, u_config.tracks))
    /\ u_tasks' = Append(u_tasks, [i \in 1..u_config.tracks |-> "waiting"])
    /\ u_awaited' = 0
    /\ u_pc' = "await"
    /\ UNCHANGED <<u_config, u_permit, unit_others>>

\* processor.rs line 173: a task gets a permit of the semaphore of its invocation
\* and starts convert_single_file
UnitTaskAcquire(a, i) ==
    /\ u_tasks[a][i] = "waiting"
    /\ u_semaphores[a] > 0
    /\ u_semaphores' = [u_semaphores EXCEPT ![a] = @ - 1]
    /\ u_tasks' = [u_tasks EXCEPT ![a][i] = "encoding"]
    /\ UNCHANGED <<u_pc, u_config, u_permit, u_retry, u_awaited, unit_others>>

\* lines 175-179: convert_single_file returns and the permit is dropped
UnitTaskReturns(a, i) ==
    /\ u_tasks[a][i] = "encoding"
    /\ u_semaphores' = [u_semaphores EXCEPT ![a] = @ + 1]
    /\ \E r \in {"ok", "err"} : u_tasks' = [u_tasks EXCEPT ![a][i] = r]
    /\ UNCHANGED <<u_pc, u_config, u_permit, u_retry, u_awaited, unit_others>>

\* processor.rs lines 185-195 and retry.rs lines 166-199: the tasks of the running
\* invocation are awaited in the order of the tracks; at the first failed one
\* process_book returns the error, dropping the handles of the tasks not awaited
\* yet, and smart_retry_async sleeps or returns; after the last one process_book
\* goes on to its Ok
UnitAwait ==
    /\ u_pc = "await"
    /\ LET state == u_tasks[Len(u_tasks)][u_awaited + 1]
       IN  \/ /\ state = "ok"
              /\ u_awaited' = u_awaited + 1
              /\ IF u_awaited' = u_config.tracks
                 THEN /\ u_retry' = smart_retry_async(u_config.retry, u_retry, Ok)
                      /\ u_pc' = "send"
                 ELSE UNCHANGED <<u_retry, u_pc>>
           \/ /\ state = "err"
              /\ \E stderr \in ToolStderr :
                    LET e == context(convert_single_file_error(stderr),
                                     Msg_track_failed(u_awaited))
                        after == smart_retry_async(u_config.retry, u_retry, Err(e))
                    IN  /\ u_retry' = after
                        /\ u_pc' = IF after.pc = "returned" THEN "send" ELSE "retry"
              /\ UNCHANGED u_awaited
    /\ UNCHANGED <<u_config, u_permit, u_tasks, u_semaphores, unit_others>>

\* retry.rs line 190: the backoff sleep ends
UnitWake ==
    /\ u_pc = "retry" /\ u_retry.pc = "sleep"
    /\ u_retry' = RetryWake(u_retry)
    /\ UNCHANGED <<u_pc, u_config, u_permit, u_tasks, u_semaphores, u_awaited, unit_others>>

\* batch.rs lines 120-128: the result is sent
UnitSend ==
    /\ u_pc = "send"
    /\ u_pc' = "sent"
    /\ UNCHANGED <<u_config, u_permit, u_retry, u_tasks, u_semaphores, u_awaited, unit_others>>

\* batch.rs line 129: the task ends and _permit is dropped
UnitFinish ==
    /\ u_pc = "sent"
    /\ u_permit' = FALSE
    /\ u_pc' = "finished"
    /\ UNCHANGED <<u_config, u_retry, u_tasks, u_semaphores, u_awaited, unit_others>>

NextUnit ==
    \/ UnitAcquire \/ UnitInvoke \/ UnitAwait \/ UnitWake \/ UnitSend \/ UnitFinish
    \/ \E a \in 1..Len(u_tasks), i \in 1..u_config.tracks :
          UnitTaskAcquire(a, i) \/ UnitTaskReturns(a, i)

SpecUnit == InitUnit /\ [][NextUnit]_vars

(***************************************************************************)
(* Properties                                                              *)
(***************************************************************************)
\* the results that hold book b
ResultsOf(b) == {k \in 1..Len(results) : results[k].book_name = b}

\* C1: when process_batch returns, results holds exactly one ProcessingResult for
\* each input book, whatever number of attempts a book took, and every spawned
\* unit has finished; for an empty list it returns an empty list and no unit,
\* semaphore or channel was ever made.
C1_OneResultPerBook ==
    main_pc = "done" =>
        /\ Len(results) = total_books
        /\ \A b \in Books : Cardinality(ResultsOf(b)) = 1
        /\ \A b \in Books : unit[b].pc = "finished"
        /\ channel = <<>>
        /\ total_books = 0 => (results = <<>> /\ spawned = 0 /\ senders = 0 /\ permits = 0)

\* C1 witness: a batch of two or more books has returned, one of them after its
\* Processor call failed more than once.
C1_Witness ==
    /\ main_pc = "done" /\ total_books >= 2 /\ retry_config.max_retries >= 1
    /\ \E b \in Books : unit[b].last = Err(process_book_tool_error(Stderr_invalid_data))
    /\ \E b \in Books : unit[b].last = Ok

\* C2: at every moment at most max_concurrent_encodes units are between acquiring
\* and releasing a permit (their Processor calls included), and every permit taken
\* is given back when its unit ends, however it ends: the free permits and the
\* permits held always add up to the size of the pool.
C2_EncodePermits ==
    /\ Cardinality(Holding) <= max_concurrent_encodes
    /\ {i \in Books : unit[i].retry.pc = "in_call"} \subseteq Holding
    /\ (main_pc \notin {"start", "idle"} /\ total_books > 0) =>
            permits + Cardinality(Holding) = max_concurrent_encodes
    /\ (total_books > 0 /\ \A i \in Books : unit[i].pc = "finished") =>
            permits = max_concurrent_encodes

\* C2 witness: the pool has no free permit: a unit is inside its Processor call
\* with a permit that another unit, whose Processor failed, has given back.
C2_Witness ==
    /\ Cardinality(Holding) = max_concurrent_encodes /\ permits = 0
    /\ \E i \in Books : unit[i].pc = "retry" /\ unit[i].retry.pc = "in_call"
    /\ \E i \in Books : unit[i].pc = "finished" /\ unit[i].last.tag = "Err"

\* C3: at every moment at most `workers` units are spawned and not yet finished.
C3_InFlightWithinWorkers == Cardinality(InFlight) <= workers

\* C4: in a batch of three books where book 2 always fails with a Permanent error,
\* the Processor of book 2 is invoked exactly once; every book's result is made
\* of its own last Processor outcome and of nothing else; and when books 1 and 3
\* succeed the results are one failure, book 2's, and the successes of books 1
\* and 3, in whatever order the units ran.
C4_FailureIsolated ==
    /\ unit[2].retry.calls <= 1
    /\ unit[2].pc = "send" =>
          /\ unit[2].retry.calls = 1
          /\ classify_error(unit[2].retry.ret.err) = "Permanent"
    /\ main_pc = "done" =>
          \A i \in Books : \A k \in ResultsOf(i) : results[k] = unit_result(i, unit[i].last)
    /\ (/\ main_pc = "done" /\ total_books = 3
        /\ unit[1].last = Ok /\ unit[3].last = Ok
        /\ unit[2].last.tag = "Err" /\ classify_error(unit[2].last.err) = "Permanent")
       => /\ Len(results) = 3
          /\ {results[k] : k \in 1..3} =
                {ProcessingResult_success(1), ProcessingResult_success(3),
                 unit_result(2, unit[2].last)}
          /\ ~unit_result(2, unit[2].last).success

\* C4 witness: the three-book batch has returned, book 2 failed with the Permanent
\* error of a missing track, books 1 and 3 succeeded, and book 3's result came first.
C4_Witness ==
    /\ main_pc = "done" /\ total_books = 3
    /\ unit[1].last = Ok /\ unit[3].last = Ok
    /\ unit[2].last = Err(create_concat_file_error)
    /\ results[1].book_name = 3

\* the outcomes f returned that are failures classified Transient
TransientFailure(o) == o.tag = "Err" /\ classify_error(o.err) = "Transient"

\* C5: retry_async and smart_retry_async invoke f at most max_retries + 1 times;
\* a success is the last outcome, ends the loop and is what is returned; and when
\* every outcome was a Transient failure the loop returns after exactly
\* max_retries + 1 invocations with the error of the last one.
C5_RetryAttempts ==
    /\ r_state.calls <= r_config.max_retries + 1
    /\ Len(r_outcomes) <= r_state.calls
    /\ \A k \in 1..Len(r_outcomes) :
          r_outcomes[k].tag = "Ok" =>
              /\ k = Len(r_outcomes)
              /\ r_state.pc = "returned"
              /\ r_state.ret = r_outcomes[k]
              /\ r_state.calls = k
    /\ (r_state.pc = "returned" /\ \A k \in 1..Len(r_outcomes) : TransientFailure(r_outcomes[k]))
       => /\ r_state.calls = r_config.max_retries + 1
          /\ Len(r_outcomes) = r_config.max_retries + 1
          /\ r_state.ret = r_outcomes[Len(r_outcomes)]

\* C5 witness: with max_retries = 2, f failed twice and then succeeded, and the
\* loop has returned that success after three invocations.
C5_Witness ==
    /\ r_fn \in {"retry_async", "smart_retry_async"}
    /\ r_config.max_retries = 2
    /\ r_state.pc = "returned" /\ r_state.calls = 3
    /\ Len(r_outcomes) = 3
    /\ TransientFailure(r_outcomes[1]) /\ TransientFailure(r_outcomes[2])
    /\ r_outcomes[3] = Ok /\ r_state.ret = Ok

\* C6: in smart_retry_async a failure classified Permanent is the last outcome: the
\* loop has returned that very error, f was invoked no more often than it has
\* returned, and the only sleeps are those that came before the failing attempt.
C6_PermanentAborts ==
    r_fn = "smart_retry_async" =>
        \A k \in 1..Len(r_outcomes) :
            (r_outcomes[k].tag = "Err" /\ classify_error(r_outcomes[k].err) = "Permanent")
            => /\ k = Len(r_outcomes)
               /\ r_state.pc = "returned"
               /\ r_state.ret = r_outcomes[k]
               /\ r_state.calls = k
               /\ Len(r_state.sleeps) = k - 1

\* C6 witness: smart_retry_async met a Permanent failure on its second attempt,
\* with a retry still left, and has returned.
C6_Witness ==
    /\ r_fn = "smart_retry_async" /\ r_config.max_retries = 2
    /\ Len(r_outcomes) = 2
    /\ r_outcomes[2] = Err(anyhow(Msg_file_not_found))
    /\ r_state.pc = "returned"

\* C7: a book whose audio tool call failed with an error text that classify_error
\* maps to Permanent is not retried: when its unit is about to send, its Processor
\* has been invoked exactly once and its result is a failure.
C7_ToolPermanentNotRetried ==
    \A i \in Books :
        (/\ unit[i].pc = "send"
         /\ \E stderr \in ToolStderr :
               /\ classify_error(convert_single_file_error(stderr)) = "Permanent"
               /\ unit[i].last = Err(process_book_tool_error(stderr)))
        => /\ unit[i].retry.calls = 1
           /\ ~unit_result(i, unit[i].retry.ret).success

\* the message contains one of the markers, letter case put aside
HasMarker(msg, markers) == \E m \in markers : contains(to_lowercase(msg), m)

\* C8 as stated: a message with a permanent and a transient marker is Permanent.
C8_PermanentWins ==
    (/\ c_pc = "done"
     /\ HasMarker(to_string(c_error), PermanentMarkers)
     /\ HasMarker(to_string(c_error), TransientMarkers))
    => c_type = "Permanent"

\* C8 amended: classify_error tests the transient markers first, so a message
\* with a permanent and a transient marker is Transient.
C8_TransientWins ==
    (/\ c_pc = "done"
     /\ HasMarker(to_string(c_error), PermanentMarkers)
     /\ HasMarker(to_string(c_error), TransientMarkers))
    => c_type = "Transient"

\* C8 witness: a message with markers of both kinds has been classified.
C8_Witness ==
    /\ c_pc = "done"
    /\ HasMarker(to_string(c_error), PermanentMarkers)
    /\ HasMarker(to_string(c_error), TransientMarkers)
    /\ contains(to_lowercase(to_string(c_error)), M_invalid)
    /\ contains(to_lowercase(to_string(c_error)), M_connection)

\* C9: classify_error puts letter case aside; a message with "file not found" or
\* "permission denied" and no transient marker is Permanent, a message with
\* "timeout" or "connection" is Transient, and a message with no marker at all
\* is Transient.
C9_Classify ==
    c_pc = "done" =>
        LET msg == to_string(c_error) IN
        /\ (/\ HasMarker(msg, {M_file_not_found, M_permission_denied})
            /\ ~HasMarker(msg, TransientMarkers)) => c_type = "Permanent"
        /\ HasMarker(msg, {M_timeout, M_connection}) => c_type = "Transient"
        /\ ~HasMarker(msg, PermanentMarkers \cup TransientMarkers) => c_type = "Transient"
        /\ c_type = classify_error(anyhow(to_lowercase(msg)))

\* C9 witness: a message that spells "file not found" with capital letters, and
\* has no transient marker, has been classified Permanent.
C9_Witness ==
    /\ c_pc = "done"
    /\ ~contains(to_string(c_error), M_file_not_found)
    /\ HasMarker(to_string(c_error), {M_file_not_found})
    /\ ~HasMarker(to_string(c_error), TransientMarkers)
    /\ c_type = "Permanent"

\* the smaller of two durations
Min(a, b) == IF a <= b THEN a ELSE b

\* C10: calculate_delay(0) is initial_delay, and for k >= 1 calculate_delay(k) is
\* the smaller of max_delay and initial_delay * backoff_multiplier^k.
C10_Delay ==
    d_pc = "done" =>
        d_delay = IF d_attempt = 0
                  THEN d_config.initial_delay
                  ELSE Min(d_config.max_delay,
                           d_config.initial_delay * powi(d_config.backoff_multiplier, d_attempt))

\* C10 witness: attempt 2 of a config with initial_delay 1 s, multiplier 2 and
\* max_delay 3 s has been given 3 s, the product 1 * 2^2 = 4 s cut to max_delay.
C10_Witness ==
    /\ d_pc = "done" /\ d_attempt = 2
    /\ d_config.initial_delay = 1 /\ d_config.backoff_multiplier = 2
    /\ d_config.max_delay = 3
    /\ d_delay = 3

\* C11: for every RetryConfig and every attempt k, calculate_delay(k) is at most
\* calculate_delay(k + 1): the backoff delay never decreases with the attempt.
C11_DelayNonDecreasing ==
    d_pc = "done" => d_delay <= calculate_delay(d_config, d_attempt + 1)

\* the track encodes running now
Encoding == {i \in 1..Len(tasks) : tasks[i] = "encoding"}

\* the concatenation calls made so far
ConcatCalls == {k \in 1..Len(calls) : calls[k].fn = "concat_audio_files"}

\* C12: in the parallel branch, the track encodes running at one time are never
\* more than the smaller of max_concurrent_files and the number of tracks, and
\* the concatenation of the encoded tracks (a copy-mode call) is reached and
\* made only when every track's encode has finished successfully.
C12_ParallelEncodes ==
    /\ Cardinality(Encoding) <= Min(max_concurrent_files, Len(tracks))
    /\ \A k \in ConcatCalls :
          calls[k].input = "encoded_files" =>
              /\ calls[k].use_copy
              /\ \A i \in 1..Len(tasks) : tasks[i] = "ok"
    /\ (book_pc \in {"create_concat_file", "concat"} /\ Strategy = "ParallelTranscode") =>
          \A i \in 1..Len(tasks) : tasks[i] = "ok"

\* C12 witness: a 4-track book with max_concurrent_files = 2 has been encoded
\* in parallel and process_book has made the concatenation call, with all 4
\* encoded tracks in temp_dir.
C12_Witness ==
    /\ Len(tracks) = 4 /\ max_concurrent_files = 2
    /\ ConcatCalls # {}
    /\ \A k \in ConcatCalls : calls[k].input = "encoded_files"
    /\ \A i \in 1..4 : tasks[i] = "ok" /\ encoded_file(i - 1) \in temp_files

\* the tracks whose encode has failed
Failed == {i \in 1..Len(tasks) : tasks[i] = "err"}

\* C13: in the parallel branch, once a track's encode has failed process_book
\* returns an error whose message names the lowest index (counted from 0)
\* among the failed tracks, and it makes no concatenation call.
C13_TrackFailure ==
    (book_pc = "returned" /\ Failed # {}) =>
        /\ book_ret.tag = "Err"
        /\ \E i \in Failed :
              /\ \A j \in Failed : i <= j
              /\ to_string(book_ret.err)
                   = Pre_track \o usize_to_string(i - 1) \o Post_encoding_failed
        /\ ConcatCalls = {}

\* C13 witness: process_book has returned "Track 1 encoding failed" for a book
\* whose tracks 1 and 3 (counted from 0) have both failed.
C13_Witness ==
    /\ book_pc = "returned"
    /\ Failed = {2, 4}
    /\ to_string(book_ret.err) = Pre_track \o <<"1">> \o Post_encoding_failed

\* C14: when process_book has returned an error, no file written by this
\* invocation is at output_path.
C14_NoOutputOnError ==
    (book_pc = "returned" /\ book_ret.tag = "Err") => ~output_exists

\* the audio calls (conversion, concatenation) process_book has made itself
RECURSIVE AudioCalls(_)
AudioCalls(cs) ==
    IF cs = <<>> THEN <<>>
    ELSE IF Head(cs).fn \in {"convert_single_file", "concat_audio_files"}
         THEN <<Head(cs)>> \o AudioCalls(Tail(cs))
         ELSE AudioCalls(Tail(cs))

\* the one audio call that writes output_path, as the table of C15 gives it
\* from the number of tracks, copy-mode eligibility and the parallel flag
C15_OutputCall ==
    LET n == Len(tracks)
        eligible == can_use_concat_copy(tracks)
    IN  IF n = 1 THEN Call("convert_single_file", eligible, "tracks", "output_path")
        ELSE IF eligible THEN Call("concat_audio_files", TRUE, "tracks", "output_path")
        ELSE IF enable_parallel_encoding
             THEN Call("concat_audio_files", TRUE, "encoded_files", "output_path")
        ELSE Call("concat_audio_files", FALSE, "tracks", "output_path")

\* C15: the branch taken depends only on the number of tracks, copy-mode
\* eligibility and the parallel flag: one track is converted in a single call
\* (copy iff eligible); several eligible tracks are concatenated in copy mode;
\* several tracks, not eligible, parallel enabled, are encoded by per-track
\* tasks and then concatenated in copy mode; otherwise one transcoding
\* concatenation call is made. Per-track tasks exist in the third case only.
C15_Strategy ==
    /\ AudioCalls(calls) \in {<<>>, <<C15_OutputCall>>}
    /\ output_exists => AudioCalls(calls) = <<C15_OutputCall>>
    /\ (\E i \in 1..Len(tasks) : tasks[i] # "unspawned") =>
          /\ Len(tracks) > 1
          /\ ~can_use_concat_copy(tracks)
          /\ enable_parallel_encoding
    /\ (output_exists /\ Len(tracks) > 1 /\ ~can_use_concat_copy(tracks)
            /\ enable_parallel_encoding) =>
          \A i \in 1..Len(tasks) : tasks[i] = "ok"

\* C15 witness: a book of 2 tracks eligible for copy mode, parallel encoding
\* enabled: process_book has returned success after the copy-mode
\* concatenation of the source tracks, with no per-track task.
C15_Witness ==
    /\ book_pc = "returned" /\ book_ret = Ok
    /\ Len(tracks) = 2 /\ can_use_concat_copy(tracks) /\ enable_parallel_encoding
    /\ AudioCalls(calls) = <<Call("concat_audio_files", TRUE, "tracks", "output_path")>>
    /\ \A i \in 1..2 : tasks[i] = "unspawned"

\* C18: once process_book has returned, with keep_temp false temp_dir does not
\* exist (unless its removal failed, which is logged), after success and after
\* an error alike; with keep_temp true a successful run leaves temp_dir in
\* place; and a failed removal comes with a success result.
C18_TempDirRemoved ==
    book_pc = "returned" =>
        /\ (~keep_temp /\ ~cleanup_failed) => ~temp_dir_exists
        /\ (keep_temp /\ book_ret = Ok) => temp_dir_exists
        /\ cleanup_failed => book_ret = Ok

\* every two tracks can be concatenated without re-encoding
PairwiseCompatible(ts) ==
    \A i, j \in 1..Len(ts) : is_compatible_for_concat(ts[i].quality, ts[j].quality)

\* C16 as stated: can_use_concat_copy is true exactly when there is at least
\* one track, every two tracks are concat-compatible and no track's codec is
\* mp3.
C16_EligibleUnlessMp3 ==
    copy_pc = "done" =>
        (copy_result <=>
            /\ Len(copy_tracks) >= 1
            /\ PairwiseCompatible(copy_tracks)
            /\ \A i \in 1..Len(copy_tracks) :
                  to_lowercase(copy_tracks[i].quality.codec) # Codec_mp3)

\* C16 amended: can_use_concat_copy is true exactly when there is at least one
\* track, every two tracks are concat-compatible and no track's codec name, in
\* lower case, is mp3 or mp3float.
C16_EligibleUnlessMp3OrMp3float ==
    copy_pc = "done" =>
        (copy_result <=>
            /\ Len(copy_tracks) >= 1
            /\ PairwiseCompatible(copy_tracks)
            /\ \A i \in 1..Len(copy_tracks) :
                  to_lowercase(copy_tracks[i].quality.codec) \notin {Codec_mp3, Codec_mp3float})

\* C16 witness: a book of two mp3float tracks with the same profile has been
\* found not eligible for copy mode.
C16_Witness ==
    /\ copy_pc = "done"
    /\ Len(copy_tracks) = 2
    /\ \A i \in 1..2 : copy_tracks[i].quality.codec = Codec_mp3float
    /\ PairwiseCompatible(copy_tracks)
    /\ ~copy_result

\* C19: after classify, the case is D for (0, 0) source and output files, B for
\* (1, 0), A for (2 or more, 0) and C whenever there is an output file; it is
\* the same after a second call on the unchanged buckets.
C19_Classify ==
    classify_calls >= 1 =>
        LET sourceCount == Len(folder.mp3_files)
            outputCount == Len(folder.m4b_files)
        IN  /\ (sourceCount = 0 /\ outputCount = 0) => folder.case = "D"
            /\ (sourceCount = 1 /\ outputCount = 0) => folder.case = "B"
            /\ (sourceCount >= 2 /\ outputCount = 0) => folder.case = "A"
            /\ outputCount >= 1 => folder.case = "C"

\* C19 witness: a folder with 2 source files and 1 output file is Case C after
\* the second classify call.
C19_Witness ==
    /\ classify_calls = 2
    /\ Len(folder.mp3_files) = 2 /\ Len(folder.m4b_files) = 1
    /\ folder.case = "C"

\* C17: the files process_book lists for the audio tool are in natural-sort
\* order of their names (Chapter_1, Chapter_2, Chapter_10, Chapter_20).
C17_NaturalOrder ==
    order_pc = "done" =>
        \A i, j \in 1..Len(tool_inputs) :
            i < j => natural_compare(tool_inputs[i], tool_inputs[j]) = "Less"

\* C20: no book folder that scan_directory returns lies inside a hidden
\* directory: no component of its path, from root down to the folder itself,
\* starts with a dot.
C20_NoHiddenBooks ==
    \A k \in 1..Len(book_folders) :
        \A c \in 1..Len(book_folders[k]) : book_folders[k][c][1] # "."

\* the root folder organize_book computes for a book of case A, B or C
TargetRoot(book) ==
    <<IF book.case = "C" THEN org_self.m4b_folder ELSE org_self.convert_folder>>

\* the first name of the sequence path, path_2, path_3, ..., path_999 that does
\* not exist in fs
FirstFreeName(fs, path) ==
    candidate(path, CHOOSE i \in 1..LastSuffix :
                        /\ ~exists(fs, candidate(path, i))
                        /\ \A j \in 1..(i - 1) : exists(fs, candidate(path, j)))

\* C21: organize_book returns a successful SkippedInvalid without destination
\* for a book of case D, a successful Skipped without destination for a book
\* whose parent directory is the target root of its case, both without touching
\* the file system; any other result it returns for a book of case A or B is
\* MovedToConvert with a destination in the to-convert root, and for a book of
\* case C MovedToM4B with a destination in the completed root, where the folder
\* then is unless the run is a dry run.
C21_OrganizeBook ==
    [][Len(org_rets') = Len(org_rets) + 1 =>
          LET book == org_books[Len(org_rets')]
              ret == org_rets'[Len(org_rets')]
          IN  IF book.case = "D"
              THEN /\ ret = OkOf(OrganizeResult(book, None, "SkippedInvalid", TRUE, None))
                   /\ org_fs' = org_fs
              ELSE IF parent(book.folder_path) = TargetRoot(book)
              THEN /\ ret = OkOf(OrganizeResult(book, None, "Skipped", TRUE, None))
                   /\ org_fs' = org_fs
              ELSE ret.tag = "Ok" =>
                      /\ ret.val.success
                      /\ ret.val.action =
                            (IF book.case = "C" THEN "MovedToM4B" ELSE "MovedToConvert")
                      /\ ret.val.destination_path.tag = "Some"
                      /\ parent(ret.val.destination_path.val) = TargetRoot(book)
                      /\ ~org_self.dry_run =>
                            /\ ret.val.destination_path.val \in org_fs'
                            /\ book.folder_path \notin org_fs'
    ]_vars

C21_Witness ==
    /\ ~org_self.dry_run
    /\ Len(org_results) = 2
    /\ org_books[1].case = "C" /\ org_results[1].action = "MovedToM4B"
    /\ org_books[2].case = "A" /\ org_results[2].action = "Skipped"
    /\ org_results[1].success /\ org_results[2].success

\* C22: resolve_naming_conflict returns the first name of the sequence name,
\* name_2, ..., name_999 that does not exist, and an error when all of them
\* exist.
C22_FirstFreeName ==
    res_pc = "done" =>
        IF \A i \in 1..LastSuffix : exists(res_fs, candidate(res_path, i))
        THEN res_ret.tag = "Err"
        ELSE /\ res_ret = OkOf(FirstFreeName(res_fs, res_path))
             /\ ~exists(res_fs, res_ret.val)

C22_Witness ==
    /\ res_pc = "done"
    /\ exists(res_fs, res_path) /\ exists(res_fs, candidate(res_path, 2))
    /\ res_ret = OkOf(join(parent(res_path), file_name(res_path) \o <<"_", "3">>))

\* C23: in dry-run mode no step of organize_batch changes the file system, and
\* organize_book still returns, for a book that would move, the destination it
\* would move to: the first free name in the target root of the book's case.
C23_DryRun ==
    [][org_self.dry_run =>
          /\ org_fs' = org_fs
          /\ Len(org_rets') = Len(org_rets) + 1 =>
                LET book == org_books[Len(org_rets')]
                    ret == org_rets'[Len(org_rets')]
                IN  (book.case # "D" /\ parent(book.folder_path) # TargetRoot(book)) =>
                        /\ ret.tag = "Ok"
                        /\ ret.val.destination_path =
                              Some(FirstFreeName(org_fs, join(TargetRoot(book),
                                                              file_name(book.folder_path))))
    ]_vars

C23_Witness ==
    /\ org_self.dry_run
    /\ org_pc = "returned"
    /\ Len(org_results) = 2
    /\ org_results[1].destination_path = Some(<<Name_To_Convert, Name_Book \o <<"_", "3">>>>)
    /\ org_results[2].action = "MovedToM4B"
    /\ \A i \in 1..2 : org_books[i].folder_path \in org_fs
    /\ <<Name_To_Convert, Name_Book \o <<"_", "3">>>> \notin org_fs

\* C24: organize_batch has one result per book handled so far, in the order of
\* the books, and returns when every book has one; the result of a book whose
\* organize_book returned an error has success = false and the error's message,
\* and the result of any other book is the one organize_book returned.
C24_BatchResults ==
    /\ Len(org_results) = Len(org_rets)
    /\ org_pc = "returned" => Len(org_results) = Len(org_books)
    /\ \A i \in 1..Len(org_results) :
          /\ org_results[i].book_name = org_books[i].name
          /\ org_results[i].source_path = org_books[i].folder_path
          /\ org_rets[i].tag = "Ok" => org_results[i] = org_rets[i].val
          /\ org_rets[i].tag = "Err" =>
                /\ ~org_results[i].success
                /\ org_results[i].error_message = Some(to_string(org_rets[i].err))

C24_Witness ==
    /\ org_pc = "returned"
    /\ Len(org_books) = 2
    /\ ~org_results[1].success
    /\ org_results[2].success /\ org_results[2].destination_path.tag = "Some"
    /\ org_results[2].destination_path.val \in org_fs

\* the profiles QualityProfile::new accepts among NewArgs
ValidArgs(a) == a[1] > 0 /\ a[2] > 0 /\ a[3] \in {1, 2}
NewProfiles ==
    {unwrap(QualityProfile_new(a[1], a[2], a[3], a[4], a[5])) : a \in {x \in NewArgs : ValidArgs(x)}}

\* the rank of a codec: aac over mp3 over any other, whatever the letter case
CodecRank(codec) ==
    IF to_lowercase(codec) = Codec_aac THEN 2
    ELSE IF to_lowercase(codec) = Codec_mp3 THEN 1 ELSE 0

\* a is better than b by the tie-break chain
Better(a, b, prefer_stereo) ==
    \/ a.bitrate > b.bitrate
    \/ /\ a.bitrate = b.bitrate
       /\ \/ a.sample_rate > b.sample_rate
          \/ /\ a.sample_rate = b.sample_rate
             /\ \/ /\ a.channels # b.channels
                   /\ IF prefer_stereo THEN a.channels = 2 ELSE a.channels = 1
                \/ /\ a.channels = b.channels
                   /\ CodecRank(a.codec) > CodecRank(b.codec)

\* C25: is_better_than follows the tie-break chain bitrate, sample rate,
\* channels by preferStereo, codec priority aac > mp3 > other ignoring case,
\* in both directions between the two profiles.
C25_TieBreakChain ==
    q_call.fn = "is_better_than" =>
        /\ q_call.forward = Better(unwrap(q_p), unwrap(q_q), q_call.prefer_stereo)
        /\ q_call.backward = Better(unwrap(q_q), unwrap(q_p), q_call.prefer_stereo)

C25_Witness ==
    /\ q_call.fn = "is_better_than"
    /\ ~q_call.prefer_stereo
    /\ unwrap(q_p).bitrate = unwrap(q_q).bitrate
    /\ unwrap(q_p).sample_rate = unwrap(q_q).sample_rate
    /\ unwrap(q_p).channels = 1 /\ unwrap(q_q).channels = 2
    /\ unwrap(q_p).codec = Codec_mp3 /\ unwrap(q_q).codec = Codec_aac
    /\ q_call.forward /\ ~q_call.backward

\* C26: is_better_than is a strict order for either preferStereo: no profile is
\* better than itself, no two profiles are each better than the other, and a
\* profile better than one that is better than a third is better than the third.
C26_StrictOrder ==
    q_call.fn = "is_better_than" =>
        /\ ~q_call.on_self
        /\ ~(q_call.forward /\ q_call.backward)
        /\ \A r \in NewProfiles :
              /\ (q_call.forward /\ is_better_than(unwrap(q_q), r, q_call.prefer_stereo))
                    => is_better_than(unwrap(q_p), r, q_call.prefer_stereo)
              /\ (q_call.backward /\ is_better_than(unwrap(q_p), r, q_call.prefer_stereo))
                    => is_better_than(unwrap(q_q), r, q_call.prefer_stereo)

C26_Witness ==
    /\ q_call.fn = "is_better_than"
    /\ unwrap(q_p).bitrate = unwrap(q_q).bitrate
    /\ unwrap(q_p).sample_rate = unwrap(q_q).sample_rate
    /\ unwrap(q_p).channels = unwrap(q_q).channels
    /\ unwrap(q_p).codec = Codec_AAC /\ unwrap(q_q).codec = Codec_aac
    /\ ~q_call.forward /\ ~q_call.backward /\ ~q_call.on_self

\* C27: is_compatible_for_concat holds exactly when bitrate, sample rate and
\* channels are equal and the codec names are equal ignoring case, whatever the
\* durations, and gives the same answer in both directions.
C27_Compatible ==
    q_call.fn = "is_compatible_for_concat" =>
        /\ q_call.forward =
              (/\ unwrap(q_p).bitrate = unwrap(q_q).bitrate
               /\ unwrap(q_p).sample_rate = unwrap(q_q).sample_rate
               /\ unwrap(q_p).channels = unwrap(q_q).channels
               /\ to_lowercase(unwrap(q_p).codec) = to_lowercase(unwrap(q_q).codec))
        /\ q_call.backward = q_call.forward

C27_Witness ==
    /\ q_call.fn = "is_compatible_for_concat"
    /\ unwrap(q_p).codec = Codec_AAC /\ unwrap(q_q).codec = Codec_aac
    /\ unwrap(q_p).duration # unwrap(q_q).duration
    /\ q_call.forward /\ q_call.backward

\* the fixed profile of a preset name, for a source of the given duration
PresetProfile(name, duration) ==
    IF name = Preset_low
    THEN [bitrate |-> 64, sample_rate |-> 22050, channels |-> 1, codec |-> Codec_aac,
          duration |-> duration]
    ELSE IF name = Preset_medium
    THEN [bitrate |-> 96, sample_rate |-> 44100, channels |-> 2, codec |-> Codec_aac,
          duration |-> duration]
    ELSE [bitrate |-> 128, sample_rate |-> 48000, channels |-> 2, codec |-> Codec_aac,
          duration |-> duration]

\* C28: apply_preset without a preset, with "source" or with a name that is
\* none of low, medium, high (in any letter case) returns a profile equal to
\* the receiver; with one of these names it returns the preset's fixed bitrate,
\* sample rate, channels and codec aac with the receiver's duration; applying
\* the same preset to the value returned gives that value again.
C28_ApplyPreset ==
    q_call.fn = "apply_preset" =>
        /\ IF q_call.preset.tag = "Some"
              /\ to_lowercase(q_call.preset.val) \in {Preset_low, Preset_medium, Preset_high}
           THEN q_call.ret = PresetProfile(to_lowercase(q_call.preset.val),
                                           q_call.self.duration)
           ELSE q_call.ret = q_call.self
        /\ apply_preset(q_call.ret, q_call.preset) = q_call.ret

C28_Witness ==
    /\ q_call.fn = "apply_preset"
    /\ q_call.preset = Some(Preset_low)
    /\ q_call.self.channels = 2 /\ q_call.self.duration = 1800
    /\ q_call.ret.channels = 1 /\ q_call.ret.duration = 1800

\* bitrate > 0, sampleRate > 0 and channels in {1,2}
ValidProfile(p) == p.bitrate > 0 /\ p.sample_rate > 0 /\ p.channels \in {1, 2}

\* C29: QualityProfile::new fails exactly when bitrate is 0, sample rate is 0
\* or channels is neither 1 nor 2; every profile it returns, and every profile
\* apply_preset and to_aac_equivalent derive from one, has bitrate > 0, sample
\* rate > 0 and 1 or 2 channels.
C29_Validation ==
    q_pc \in {"built", "failed"} =>
        /\ (q_p.tag = "Ok") = ValidArgs(q_args)
        /\ (q_q.tag = "Ok") = ValidArgs(q_other_args)
        /\ q_p.tag \in {"Ok", "Err"} /\ q_q.tag \in {"Ok", "Err"}
        /\ q_p.tag = "Ok" => ValidProfile(unwrap(q_p))
        /\ q_q.tag = "Ok" => ValidProfile(unwrap(q_q))
        /\ q_call.fn \in {"apply_preset", "to_aac_equivalent"} => ValidProfile(q_call.ret)

C29_Witness ==
    /\ q_pc = "built"
    /\ q_ops = 2
    /\ q_call.fn = "to_aac_equivalent"
    /\ q_call.self.bitrate = 64 /\ q_call.ret.bitrate = 128
    /\ q_p = OkOf(q_call.ret)

\* C30: whatever counts the constructors are given, the BatchProcessor's
\* workers and max_concurrent_encodes end up in 1..16 and the Processor's
\* max_concurrent_files in 1..32, and every Semaphore is created with at least
\* one permit.
C30_Clamped ==
    /\ cl_pc \in {"batch", "encode_pool", "processor", "file_pool"} =>
          /\ cl_batch.workers \in 1..16
          /\ cl_batch.max_concurrent_encodes \in 1..16
    /\ cl_pc \in {"processor", "file_pool"} => cl_processor.max_concurrent_files \in 1..32
    /\ cl_pc # "idle" => \A i \in 1..Len(cl_pools) : cl_pools[i] >= 1

C30_Witness ==
    /\ cl_pc = "file_pool"
    /\ cl_args.workers = 1000 /\ cl_batch.workers = 16
    /\ cl_args.max_concurrent_encodes = 0 /\ cl_batch.max_concurrent_encodes = 1
    /\ cl_args.max_concurrent_files = 0 /\ cl_processor.max_concurrent_files = 1
    /\ cl_pools = <<1, 1>>

\* the outcomes seen so far are Transient failures, but for a final success
OnlyTransientFailures ==
    \A k \in 1..Len(r_outcomes) :
        \/ TransientFailure(r_outcomes[k])
        \/ k = Len(r_outcomes) /\ r_outcomes[k].tag = "Ok"

\* C31: while smart_retry_async meets only Transient failures, attempts and sleeps
\* alternate: the i-th sleep lasts calculate_delay(i - 1); there are as many
\* sleeps as invocations when the loop sleeps or is about to invoke f again, and
\* one less while f runs and once the loop has returned (so none before the first
\* attempt, none after the last one and none after a success); a sleep follows a
\* failed attempt only if its index is below max_retries.
C31_AttemptsAndSleepsAlternate ==
    (r_fn = "smart_retry_async" /\ OnlyTransientFailures) =>
        /\ \A i \in 1..Len(r_state.sleeps) :
              r_state.sleeps[i] = calculate_delay(r_config, i - 1)
        /\ Len(r_state.sleeps) <= r_config.max_retries
        /\ r_state.pc = "call" =>
              /\ Len(r_state.sleeps) = r_state.calls
              /\ r_state.attempt = r_state.calls
        /\ r_state.pc = "in_call" => Len(r_state.sleeps) = r_state.calls - 1
        /\ r_state.pc = "sleep" =>
              /\ Len(r_state.sleeps) = r_state.calls
              /\ r_state.attempt < r_config.max_retries
              /\ TransientFailure(r_outcomes[Len(r_outcomes)])
        /\ r_state.pc = "returned" =>
              /\ Len(r_state.sleeps) = r_state.calls - 1
              /\ \/ r_outcomes[Len(r_outcomes)].tag = "Ok"
                 \/ r_state.calls = r_config.max_retries + 1

\* C31 witness: with max_retries = 2 and a base delay of one second,
\* smart_retry_async has returned after three Transient failures and the two
\* sleeps calculate_delay(0), calculate_delay(1) between them.
C31_Witness ==
    /\ r_fn = "smart_retry_async"
    /\ r_config.max_retries = 2 /\ r_config.initial_delay > 0
    /\ r_state.pc = "returned" /\ r_state.calls = 3
    /\ Len(r_outcomes) = 3
    /\ \A k \in 1..3 : TransientFailure(r_outcomes[k])
    /\ r_state.sleeps = <<calculate_delay(r_config, 0), calculate_delay(r_config, 1)>>
    /\ r_state.sleeps[1] # r_state.sleeps[2]

\* where the task of book i is; "none" when the batch has no such book
UnitPc(i) == IF i \in Books THEN unit[i].pc ELSE "none"

\* C32: under fair scheduling and ending tool calls process_batch ends for every
\* number of books and every cap: a task waiting for a permit of encode_semaphore
\* gets one, a task with a result gets it into the channel, the collection loop
\* ends and process_batch returns, and a task that was spawned ends with one
\* ProcessingResult of its book among the results.
C32_BatchTerminates ==
    /\ <>(main_pc = "done")
    /\ (main_pc = "collect") ~> (main_pc = "join")
    /\ \A i \in 1..MaxBooks :
          /\ (UnitPc(i) = "acquire") ~> (UnitPc(i) = "retry")
          /\ (UnitPc(i) = "send") ~> (UnitPc(i) = "sent")
          /\ (UnitPc(i) = "acquire")
                ~> (/\ UnitPc(i) = "finished"
                    /\ \E k \in 1..Len(results) : results[k].book_name = i)

\* C32 witness: process_batch has returned the results of two books that shared
\* one permit, one of them after a retry.
C32_Witness ==
    /\ main_pc = "done" /\ total_books = 2 /\ max_concurrent_encodes = 1
    /\ Len(results) = 2
    /\ \A i \in Books : unit[i].pc = "finished"
    /\ \E k \in 1..2 : ~results[k].success

\* C37: a task takes its permit of encode_semaphore once, when it leaves the wait
\* and before process_single_book was invoked; it invokes process_single_book and
\* sleeps between attempts only while it holds the permit; the count of free
\* permits changes by one only as a task takes its permit or ends after its
\* result was sent; and the tasks that hold a permit, the sleeping ones among
\* them, are as many as the permits that are not free.
C37_PermitHeldThroughRetries ==
    [][
        /\ \A i \in Books :
              /\ (unit'[i].pc # unit[i].pc) =>
                     (<<unit[i].pc, unit'[i].pc>> \in
                         {<<"unspawned", "acquire">>, <<"acquire", "retry">>,
                          <<"retry", "send">>, <<"send", "sent">>, <<"sent", "finished">>})
              /\ (unit[i].pc = "acquire" /\ unit'[i].pc = "retry") =>
                     (/\ permits > 0 /\ permits' = permits - 1
                      /\ unit'[i].retry = RetryStart)
              /\ (unit[i].pc = "sent" /\ unit'[i].pc = "finished") =>
                     (/\ permits' = permits + 1
                      /\ \E k \in 1..(Len(channel) + Len(results)) :
                            (results \o channel)[k].book_name = i)
              /\ (unit'[i].retry # unit[i].retry) => (i \in Holding)
              /\ (unit[i].retry.pc \in {"in_call", "sleep"}) => (i \in Holding)
        /\ (permits' # permits) =>
               (\/ main_pc = "start"
                \/ \E i \in Books :
                      \/ unit[i].pc = "acquire" /\ unit'[i].pc = "retry"
                      \/ unit[i].pc = "sent" /\ unit'[i].pc = "finished")
        /\ (main_pc # "start") =>
               (permits = max_concurrent_encodes - Cardinality(Holding))
    ]_vars

\* C37 witness: with one permit and two books, a task sleeps between two attempts
\* while the other task still waits for the permit.
C37_Witness ==
    /\ max_concurrent_encodes = 1 /\ total_books = 2 /\ permits = 0
    /\ \E i, j \in Books :
          /\ unit[i].pc = "retry" /\ unit[i].retry.pc = "sleep"
          /\ unit[i].retry.calls = 1
          /\ unit[j].pc = "acquire"

\* the tool calls that write the audio of output_path
AssemblyFns == {"convert_single_file", "concat_audio_files"}

\* the functions of the tool calls process_book has made, in the order made
CallFns == [k \in 1..Len(calls) |-> calls[k].fn]

\* what a process_book invocation calls up to its return of Ok
FullRun(assembly) ==
    IF chapter_count > 0
    THEN <<assembly, "inject_chapters_mp4box", "inject_metadata_atomicparsley">>
    ELSE <<assembly, "inject_metadata_atomicparsley">>

\* C33: the tool calls of one process_book invocation are a prefix of: one audio
\* assembly call, the chapter injection when there are chapters, one tag injection;
\* an invocation that returned Ok has made them all (tags injected exactly once);
\* temp_dir is removed by the cleanup only after the tag injection and as the
\* invocation returns Ok; and once the invocation has returned, with an error
\* after a failed step in particular, no further call and no cleanup is made.
C33_StepOrder ==
    [][
        /\ \E assembly \in AssemblyFns :
              /\ Len(calls) <= Len(FullRun(assembly))
              /\ CallFns = SubSeq(FullRun(assembly), 1, Len(calls))
              /\ (book_ret.tag = "Ok") => (CallFns = FullRun(assembly))
        /\ (book_pc # "create_temp_dir" /\ temp_dir_exists /\ ~temp_dir_exists') =>
              (/\ calls # <<>>
               /\ calls[Len(calls)].fn = "inject_metadata_atomicparsley"
               /\ calls' = calls
               /\ ~keep_temp
               /\ book_ret = None /\ book_ret'.tag = "Ok")
        /\ (book_pc = "returned") =>
              (/\ calls' = calls /\ temp_dir_exists' = temp_dir_exists
               /\ book_ret' = book_ret /\ book_pc' = book_pc)
        /\ (book_ret'.tag = "Err" /\ book_ret = None) =>
              (book_pc' = "returned")
    ]_vars

\* C33 witness: a book of several tracks has been processed: concatenation, chapter
\* injection and tag injection were called in this order, and temp_dir is removed.
C33_Witness ==
    /\ book_ret.tag = "Ok" /\ book_pc = "returned"
    /\ chapter_count > 0 /\ ~keep_temp /\ ~temp_dir_exists
    /\ CallFns = <<"concat_audio_files", "inject_chapters_mp4box",
                   "inject_metadata_atomicparsley">>

Strategies == {"SingleFile", "DirectConcatCopy", "ParallelTranscode", "SerialTranscode"}

\* C39: the profile process_book starts from is the profile of a track k such that
\* no track's profile is better (is_better_than with prefer_stereo = true) and
\* every earlier track's profile is worse: the earliest of the equally good ones;
\* a book without tracks has no profile, process_book returns the error
\* "No tracks found" and enters no branch.
C39_BestProfile ==
    bq_pc # "start" =>
        IF bq_tracks = <<>>
        THEN /\ bq_quality = None
             /\ bq_pc = "returned"
             /\ bq_ret.tag = "Err" /\ to_string(bq_ret.err) = Ctx_no_tracks
        ELSE /\ bq_pc \in {"strategy"} \cup Strategies
             /\ bq_ret = None
             /\ \E k \in 1..Len(bq_tracks) :
                   /\ bq_quality = Some(bq_tracks[k].quality)
                   /\ \A j \in 1..Len(bq_tracks) :
                         ~is_better_than(bq_tracks[j].quality, bq_tracks[k].quality, TRUE)
                   /\ \A j \in 1..(k - 1) :
                         is_better_than(bq_tracks[k].quality, bq_tracks[j].quality, TRUE)

\* C39 witness: three tracks, the second and the third equally good and better than
\* the first, with different durations: the profile of the second one is taken.
C39_Witness ==
    /\ bq_pc \in Strategies /\ Len(bq_tracks) = 3
    /\ is_better_than(bq_tracks[2].quality, bq_tracks[1].quality, TRUE)
    /\ ~is_better_than(bq_tracks[2].quality, bq_tracks[3].quality, TRUE)
    /\ ~is_better_than(bq_tracks[3].quality, bq_tracks[2].quality, TRUE)
    /\ bq_tracks[2].quality # bq_tracks[3].quality
    /\ bq_quality = Some(bq_tracks[2].quality)

RECURSIVE SumMs(_, _)
\* the durations of the first n tracks, each cut to whole milliseconds, added up
SumMs(ts, n) ==
    IF n = 0 THEN 0
    ELSE SumMs(ts, n - 1)
         + (CHOOSE m \in 0..(ts[n].quality.duration \div 10) :
                m * 10 <= ts[n].quality.duration /\ ts[n].quality.duration < (m + 1) * 10)

\* C40: for a book of more than one track and the chapter source "files" there is
\* one chapter per track, in the order of the tracks and numbered from 1; the first
\* one starts at 0, each next one starts where the one before it ends, each one is
\* as long as its track in whole milliseconds (the fraction of a millisecond is
\* dropped), and the last one ends at the sum of these lengths.
C40_FileChapters ==
    (ch_pc = "returned" /\ ch_source = "files" /\ Len(ch_tracks) > 1) =>
        /\ Len(ch_chapters) = Len(ch_tracks)
        /\ ch_chapters[1].start_time_ms = 0
        /\ \A i \in 1..Len(ch_chapters) :
              LET c == ch_chapters[i]
                  d == ch_tracks[i].quality.duration
              IN  /\ c.number = i
                  /\ c.title = file_stem(ch_tracks[i].file_path)
                  /\ c.start_time_ms <= c.end_time_ms
                  /\ (c.end_time_ms - c.start_time_ms) * 10 <= d
                  /\ d < (c.end_time_ms - c.start_time_ms + 1) * 10
                  /\ i > 1 => c.start_time_ms = ch_chapters[i - 1].end_time_ms
        /\ ch_chapters[Len(ch_chapters)].end_time_ms = SumMs(ch_tracks, Len(ch_tracks))

\* C40 witness: three tracks of 1.2345 s, 0.0009 s and 120.5 s give the chapters
\* 0-1234, 1234-1234 and 1234-121734.
C40_Witness ==
    /\ ch_pc = "returned" /\ ch_source = "files" /\ Len(ch_tracks) = 3
    /\ [i \in 1..3 |-> ch_tracks[i].quality.duration] = <<12345, 9, 1205000>>
    /\ [i \in 1..3 |-> <<ch_chapters[i].start_time_ms, ch_chapters[i].end_time_ms>>]
          = <<(<<0, 1234>>), (<<1234, 1234>>), (<<1234, 121734>>)>>

\* C38: the destination a dry run of organize_batch reports for each book is the
\* destination the real run reaches for it from the same file system (a dry run
\* leaves the file system as it was).
C38_DryRunMatchesReal ==
    (org_pc = "returned" /\ org_self.dry_run) =>
        LET real == organize_batch(Organizer_with_dry_run(FALSE), org_books, org_fs)
        IN  \A i \in 1..Len(org_books) :
                org_results[i].destination_path = real[i].destination_path

\* C36: two different books of one batch never use the same temporary directory
\* nor the same output path.
C36_DistinctPaths ==
    \A i, j \in 1..2 :
        (i # j /\ pr_books # <<>>) =>
            /\ (pr_output_path[i].tag = "Some" /\ pr_output_path[j].tag = "Some")
                   => pr_output_path[i] # pr_output_path[j]
            /\ (pr_temp_dir[i].tag = "Some" /\ pr_temp_dir[j].tag = "Some")
                   => pr_temp_dir[i] # pr_temp_dir[j]

\* C34: over the life of a book's task, retries included, the encodes of the book
\* that run at one time are never more than
\* min(max_concurrent_files, number of tracks).
C34_EncodesAcrossAttempts ==
    u_config # <<>> =>
        Cardinality(UnitEncoding) <= min(u_config.max_concurrent_files, u_config.tracks)

\* C35: an encoding task runs only while the task of its book holds its permit of
\* encode_semaphore.
C35_EncodesUnderPermit ==
    u_config # <<>> => (UnitEncoding # {} => u_permit)

====
